---- MODULE Spec2Model ----
(***************************************************************************)
(* World-level type inference of the Capy compiler                         *)
(* (crates/hir_ty/src/globals.rs): GlobalInferenceCtx::infer_expr,         *)
(* reinfer_expr, reinfer_usages, replace_weak_tys, expect_match and        *)
(* finish_body over the side tables of ProjectInference, driven by the     *)
(* topological scheduler of Inferrables.                                   *)
(*                                                                         *)
(* One file ("main") is modelled.  Its Bodies are arenas (sequences) of    *)
(* expressions, statements, local definitions and lambdas; an index into   *)
(* an arena is a positive integer and 0 stands for None.                   *)
(***************************************************************************)
EXTENDS Integers, Sequences, FiniteSets, TLC

(***************************************************************************)
(* Bounds of the model.                                                    *)
(***************************************************************************)
\* deepest nesting of replace_weak_tys / reinfer_usages / reinfer_expr calls
\* the model follows before it reports the call chain as not returning
MaxDepth == 14
\* cap on the number of drives of one Inferrable
MaxVisits == 6
\* longest work list of get_const the model follows before it reports the
\* loop as not ending
MaxCheck == 12
\* number of global references and calls the comptime evaluator follows
\* before the model reports the evaluation as not ending
MaxEval == 4

(***************************************************************************)
(* u64 literals: three base-2^24 digits, most significant first.           *)
(***************************************************************************)
Num(n) == <<0, 0, n>>
NumGt(a, b) ==
    \/ a[1] > b[1]
    \/ a[1] = b[1] /\ a[2] > b[2]
    \/ a[1] = b[1] /\ a[2] = b[2] /\ a[3] > b[3]
I8Max == <<0, 0, 127>>
U8Max == <<0, 0, 255>>
I32Max == <<0, 127, 16777215>>
U32Max == <<0, 255, 16777215>>
I64Max == <<32767, 16777215, 16777215>>
U64Max == <<65535, 16777215, 16777215>>
BigNum == <<0, 300, 0>>
NumGe(a, b) == ~NumGt(b, a)
\* n + 1 on a u64; the sum of u64::MAX and 1 wraps to 0
NumInc(a) ==
    IF a[3] < 16777215 THEN <<a[1], a[2], a[3] + 1>>
    ELSE IF a[2] < 16777215 THEN <<a[1], a[2] + 1, 0>>
    ELSE IF a[1] < 65535 THEN <<a[1] + 1, 0, 0>>
    ELSE <<0, 0, 0>>

(***************************************************************************)
(* Ty.  A type is a tuple whose head is the variant name.                  *)
(*   <<"UInt", bw>>, <<"IInt", bw>>, <<"Float", bw>>   bw = 0 is weak,     *)
(*   bw = 255 is the pointer width (usize / isize)                         *)
(*   <<"Array", anonymous, size, sub_ty>>, <<"Slice", sub_ty>>             *)
(*   <<"Function", return_ty>> (parameterless function)                    *)
(*   <<"Struct", anonymous, members>>, members a sequence of <<name, ty>>  *)
(***************************************************************************)
TUnknown == <<"Unknown">>
TNotYetResolved == <<"NotYetResolved">>
TNoEval == <<"NoEval">>
TVoid == <<"Void">>
TBool == <<"Bool">>
TType == <<"Type">>
TFile == <<"File">>
TUInt(bw) == <<"UInt", bw>>
TIInt(bw) == <<"IInt", bw>>
TFloat(bw) == <<"Float", bw>>
\* Ty::Array { anonymous, size, sub_ty }: size is a u64, kept as a Num
TArray(anon, size, sub) == <<"Array", anon, size, sub>>
TSlice(sub) == <<"Slice", sub>>
\* Ty::Function { param_tys, return_ty }; a ParamTy is [ty, varargs,
\* impossible_to_differentiate]
TFn(params, ret) == <<"Function", ret, params>>
TFunction(ret) == TFn(<<>>, ret)
ParamTy(ty, varargs) == [ty |-> ty, varargs |-> varargs, impossible |-> FALSE]
TPointer(mutable, sub) == <<"Pointer", mutable, sub>>
TRawPtr(mutable) == <<"RawPtr", mutable>>
TRawSlice == <<"RawSlice">>
\* Ty::Struct { anonymous, members, .. }: a MemberTy is <<name, ty>>
TStructOf(anonymous, members) == <<"Struct", anonymous, members>>
\* Ty::Variant { enum_uid, variant_name, discriminant, .. } as const_ty
\* builds it; the uid of an enum is the one of its Expr::EnumDecl, which is
\* modelled as the index of that expression (one per declaration)
TVariantAt(enum_uid, name, discriminant) == <<"Variant", name, discriminant, enum_uid>>
\* Ty::Enum { uid, variants, .. }
TEnumOf(uid, variants) == <<"Enum", variants, uid>>
\* Ty::Enum of the enum declared at uid without discriminants: const_ty
\* numbers the variants from 0
TEnumAt(uid, names) ==
    TEnumOf(uid, [i \in 1..Len(names) |-> TVariantAt(uid, names[i], Num(i - 1))])
\* `enum { A, B }` as it is written in the place of a type, before an
\* Expr::EnumDecl stands for it
TEnum(names) == TEnumAt(0, names)
I32 == TIInt(32)
I64 == TIInt(64)
U8 == TUInt(8)
U64 == TUInt(64)
USize == TUInt(255)
F64 == TFloat(64)

Tag(ty) == ty[1]
IsInt(ty) == ty[1] \in {"UInt", "IInt"}
IsNumber(ty) == ty[1] \in {"UInt", "IInt", "Float"}
is_unknown(ty) == ty = TUnknown
is_void(ty) == ty = TVoid
IsArray(ty) == ty[1] = "Array"
IsSlice(ty) == ty[1] = "Slice"
IsFunction(ty) == ty[1] = "Function"
IsPointer(ty) == ty[1] = "Pointer"
IsEnum(ty) == ty[1] = "Enum"
IsStruct(ty) == ty[1] = "Struct"
\* the names of the members of a struct type
MemberNames(ty) == {ty[3][i][1] : i \in 1..Len(ty[3])}
\* `members.iter().find(|member_ty| member_ty.name == name)`: the type of
\* the first member of that name
MemberTyOf(ty, name) ==
    ty[3][CHOOSE i \in 1..Len(ty[3]) :
             ty[3][i][1] = name /\ \A j \in 1..(i - 1) : ty[3][j][1] # name][2]
\* the type a map collected from the members holds for that name: the one
\* of the last member of that name
MemberTyLast(ty, name) ==
    LET hit == {i \in 1..Len(ty[3]) : ty[3][i][1] = name} IN
    ty[3][CHOOSE i \in hit : \A j \in hit : j <= i][2]
RECURSIVE StripPointers(_)
\* `while let Some((_, sub_ty)) = ty.as_pointer() { ty = sub_ty }`
StripPointers(ty) == IF IsPointer(ty) THEN StripPointers(ty[3]) ELSE ty

\* a weak type (glossary): bit width 0, or an anonymous array or struct
IsWeak(ty) ==
    \/ IsNumber(ty) /\ ty[2] = 0
    \/ IsArray(ty) /\ ty[2] = TRUE
    \/ IsStruct(ty) /\ ty[2] = TRUE
\* a strong type in the sense of the weak-type lattice
IsStrong(ty) ==
    \/ IsNumber(ty) /\ ty[2] # 0
    \/ IsArray(ty) /\ ty[2] = FALSE
    \/ IsStruct(ty) /\ ty[2] = FALSE

IntMax(a, b) == IF a >= b THEN a ELSE b

\* Ty::get_max_int_size
get_max_int_size(ty) ==
    CASE ty = TIInt(8) -> I8Max
      [] ty = TIInt(32) -> I32Max
      [] ty = TIInt(64) -> I64Max
      [] ty = TUInt(8) -> U8Max
      [] ty = TUInt(32) -> U32Max
      [] ty = TUInt(64) -> U64Max
      [] OTHER -> <<>>

\* Ty::is_equal_to restricted to the modelled types (structural equality)
is_equal_to(a, b) == a = b

\* Ty::has_default_value: pointers, slices and functions have none
has_default_value(ty) ==
    Tag(ty) \notin {"Pointer", "RawPtr", "RawSlice", "Slice", "Function"}

RECURSIVE is_weak_replaceable_by(_, _)
\* a replaceability relation that also lets a weak signed integer turn
\* into an unsigned one
WeakReplaceableEitherSign(found, expected) ==
    \/ found = TIInt(0) /\ Tag(expected) = "UInt"
    \/ found = TUInt(0) /\ Tag(expected) \in {"UInt", "IInt"} /\ expected # found
    \/ found = TIInt(0) /\ Tag(expected) = "IInt" /\ expected # found
    \/ found \in {TUInt(0), TIInt(0)} /\ Tag(expected) = "Float"
    \/ found = TFloat(0) /\ Tag(expected) = "Float" /\ expected # found
    \/ /\ IsArray(found) /\ found[2] = TRUE /\ IsArray(expected)
       /\ found[3] = expected[3]
       /\ (found[4] = expected[4] \/ is_weak_replaceable_by(found[4], expected[4]))
    \/ /\ IsArray(found) /\ found[2] = TRUE /\ IsSlice(expected)
       /\ (found[4] = expected[2] \/ is_weak_replaceable_by(found[4], expected[2]))

\* Ty::is_weak_replaceable_by, section 4.3.2 of the design
is_weak_replaceable_by(found, expected) ==
    CASE found = TUInt(0) /\ Tag(expected) = "UInt" -> expected[2] # 0
      [] found = TIInt(0) /\ Tag(expected) = "IInt" -> expected[2] # 0
      [] found = TUInt(0) /\ Tag(expected) = "IInt" -> TRUE
      [] found \in {TUInt(0), TIInt(0)} /\ Tag(expected) = "Float" -> TRUE
      [] found = TFloat(0) /\ Tag(expected) = "Float" -> expected[2] # 0
      [] IsArray(found) /\ found[2] = TRUE /\ IsArray(expected) ->
            /\ found[3] = expected[3]
            /\ \/ found[4] = expected[4]
               \/ is_weak_replaceable_by(found[4], expected[4])
      [] IsArray(found) /\ found[2] = TRUE /\ IsSlice(expected) ->
            \/ found[4] = expected[2]
            \/ is_weak_replaceable_by(found[4], expected[2])
      \* the Ref arm of replace_weak_tys takes both types for pointers and
      \* keeps the mutability of the one found: `^mut {uint}` is replaceable
      \* by `^i32`
      [] IsPointer(found) /\ IsPointer(expected) ->
            /\ found[2] \/ ~expected[2]
            /\ is_weak_replaceable_by(found[3], expected[3])
      \* an anonymous struct literal is replaceable by a struct that has
      \* every member of the literal (the StructLiteral arm of
      \* replace_weak_tys looks each one up) and a default value for every
      \* member the literal leaves out
      [] IsStruct(found) /\ found[2] = TRUE /\ IsStruct(expected) /\ found # expected ->
            /\ \A i \in 1..Len(found[3]) :
                  /\ found[3][i][1] \in MemberNames(expected)
                  /\ \/ found[3][i][2] = MemberTyLast(expected, found[3][i][1])
                     \/ is_weak_replaceable_by(found[3][i][2],
                                               MemberTyLast(expected, found[3][i][1]))
            /\ \A j \in 1..Len(expected[3]) :
                  expected[3][j][1] \notin MemberNames(found)
                     => has_default_value(expected[3][j][2])
      [] OTHER -> FALSE

RECURSIVE can_fit_into(_, _)
\* Ty::can_fit_into: found is assignable to expected
can_fit_into(found, expected) ==
    CASE found = TUnknown \/ expected = TUnknown -> TRUE
      [] found = TNoEval -> TRUE
      [] Tag(found) = Tag(expected) /\ IsNumber(found) ->
            expected[2] = 0 \/ (found[2] # 255 /\ expected[2] >= found[2])
               \/ found[2] = expected[2]
      [] Tag(found) = "IInt" /\ Tag(expected) = "UInt" -> expected[2] = 0
      [] Tag(found) = "UInt" /\ Tag(expected) = "IInt" ->
            expected[2] = 0 \/ expected[2] > found[2]
      [] IsInt(found) /\ Tag(expected) = "Float" ->
            expected[2] = 0 \/ expected[2] > found[2]
      [] IsArray(found) /\ found[2] = TRUE /\ (IsArray(expected) \/ IsSlice(expected)) ->
            is_weak_replaceable_by(found, expected)
               \/ (IsArray(expected) /\ found[3] = expected[3] /\ found[4] = expected[4])
      [] IsArray(found) /\ IsArray(expected) ->
            found[3] = expected[3] /\ found[4] = expected[4]
      \* a pointer fits into the type it is weak-replaceable by
      [] IsPointer(found) /\ IsPointer(expected) ->
            found = expected \/ is_weak_replaceable_by(found, expected)
      \* an anonymous struct literal fits into a struct that has every member
      \* of the literal, each fitting into the member of its name, and a
      \* default value for every member the literal leaves out
      [] IsStruct(found) /\ found[2] = TRUE /\ IsStruct(expected) /\ found # expected ->
            /\ \A i \in 1..Len(found[3]) :
                  /\ found[3][i][1] \in MemberNames(expected)
                  /\ can_fit_into(found[3][i][2], MemberTyLast(expected, found[3][i][1]))
            /\ \A j \in 1..Len(expected[3]) :
                  expected[3][j][1] \notin MemberNames(found)
                     => has_default_value(expected[3][j][2])
      [] OTHER -> found = expected

\* Ty::can_cast_to: numbers to numbers, pointers to pointers, a type to
\* itself
can_cast_to(from, to) ==
    \/ from = to
    \/ IsNumber(from) /\ IsNumber(to)
    \/ Tag(from) \in {"Pointer", "RawPtr"} /\ Tag(to) \in {"Pointer", "RawPtr"}

(***************************************************************************)
(* Bodies: the lowered file.                                               *)
(*   exprs[i]   = [k, a, b, n, ty, ss, sc]                                 *)
(*       k  : the Expr variant                                             *)
(*       a,b: child expression / local / lambda / global index (0 = None)  *)
(*       n  : the value of an IntLiteral                                   *)
(*       ty : the Ty of a PrimitiveTy                                      *)
(*       ss : the statements of a Block, the items of an ArrayLiteral, the *)
(*            arguments of a Call or a Directive, the values of the        *)
(*            members of a StructLiteral, the types of those of a          *)
(*            StructDecl                                                   *)
(*       sc : block_to_scope_id(i) is Some                                 *)
(*       c  : third child (else branch of If, default body of Switch)      *)
(*       vs : the variant names of the arms of a Switch ("" = None), the   *)
(*            member names of a StructLiteral or a StructDecl              *)
(*   stmts[i]   = [k, a, b, op]  LocalDef(a), Assign{dest a, value b,      *)
(*                quick_assign_op op}, Expr(a), Break{label b, value a},   *)
(*                Continue{label b}                                        *)
(*   locals[i]  = [ty, value, mutable]   (ty: annotation expression)       *)
(*   lambdas[i] = [return_ty, body, params]  (params[j] = [ty, varargs])   *)
(*   globals[i] = [body, ty]             (the Fqn is the index i)          *)
(***************************************************************************)
NoTy == <<>>
Node(k, a, b) == [k |-> k, a |-> a, b |-> b, n |-> Num(0), ty |-> TVoid, ss |-> <<>>,
                  sc |-> FALSE, c |-> 0, vs |-> <<>>]
IntLiteral(n) == [Node("IntLiteral", 0, 0) EXCEPT !.n = n]
PrimitiveTy(ty) == [Node("PrimitiveTy", 0, 0) EXCEPT !.ty = ty]
\* Expr::ArrayDecl { size, ty }: a is the size (0 = None), b the type
\* expression of the items
ArrayDecl(size, ty) == Node("ArrayDecl", size, ty)
\* the place of the type expression that denotes ty; Bodies writes the
\* expression out (Expand)
TyExpr(ty) == [Node("TyOf", 0, 0) EXCEPT !.ty = ty]
\* the place of Expr::ArrayDecl { size: Some(size), ty } whose ty denotes sub
ArrayDeclSized(size, sub) == [Node("ArrayOf", size, 0) EXCEPT !.ty = sub]
\* Expr::EnumDecl { variants }: vs holds the names of the variants ("" = None),
\* ss their discriminant expressions (0 = None)
EnumDecl(names, discriminants) ==
    [Node("EnumDecl", 0, 0) EXCEPT !.vs = names, !.ss = discriminants]
\* Expr::Ref { mutable, expr: inner }, inner a value or a type expression:
\* ty[2] holds mutable
RefValue(mutable, inner) == [Node("Ref", inner, 0) EXCEPT !.ty = <<"Pointer", mutable>>]
\* Expr::StructDecl { members }: vs holds the names of the members, ss their
\* type expressions
StructDecl(names, tys) == [Node("StructDecl", 0, 0) EXCEPT !.vs = names, !.ss = tys]
\* Expr::StructLiteral { ty, members }: a is the type expression (0 = None),
\* vs holds the names of the members, ss their values
StructLiteralOf(ty, names, values) ==
    [Node("StructLiteral", ty, 0) EXCEPT !.vs = names, !.ss = values]
\* Expr::Directive { name, args }
Directive(name, args) == [Node("Directive", 0, 0) EXCEPT !.vs = <<name>>, !.ss = args]
Local(l) == Node("Local", l, 0)
LocalGlobal(g) == Node("LocalGlobal", g, 0)
Binary(lhs, rhs) == Node("Binary", lhs, rhs)
Unary(e) == Node("Unary", e, 0)
Paren(e) == Node("Paren", e, 0)
Call(callee) == Node("Call", callee, 0)
Lambda(l) == Node("Lambda", l, 0)
Import == Node("Import", 0, 0)
Member(previous, g) == Node("Member", previous, g)
\* Expr::Member { previous, name } on a value or a type: vs holds the name
MemberNamed(previous, name) == [Node("Member", previous, 0) EXCEPT !.vs = <<name>>]
\* the name of the field of a Member ("" on a Member that names a global)
field(x) == IF x.vs # <<>> THEN x.vs[1] ELSE ""
Block(ss, tail) == [Node("Block", tail, 0) EXCEPT !.ss = ss]
\* a block with a label: block_to_scope_id is Some
Labelled(ss, tail) == [Node("Block", tail, 0) EXCEPT !.ss = ss, !.sc = TRUE]
While(cond, body) == [Node("While", cond, body) EXCEPT !.sc = TRUE]
\* Expr::While { condition: None, body }: a `loop`
Loop(body) == While(0, body)
ArrayLiteral(items) == [Node("ArrayLiteral", 0, 0) EXCEPT !.ss = items]
SLocalDef(l) == [k |-> "LocalDef", a |-> l, b |-> 0, op |-> FALSE]
SAssign(dest, value, op) == [k |-> "Assign", a |-> dest, b |-> value, op |-> op]
SExpr(e) == [k |-> "Expr", a |-> e, b |-> 0, op |-> FALSE]
\* Stmt::Continue { label }: b is the loop the label names, 0 without a label
SContinue(label) == [k |-> "Continue", a |-> 0, b |-> label, op |-> FALSE]
\* Stmt::Break { label, value }: b is the block or loop the label names,
\* a the value (0 = None)
SBreak(label, value) == [k |-> "Break", a |-> value, b |-> label, op |-> FALSE]
LocalDef(ty, value) == [ty |-> ty, value |-> value, mutable |-> TRUE]
\* x :: value, an immutable binding
ImmutableDef(ty, value) == [ty |-> ty, value |-> value, mutable |-> FALSE]
LambdaBody(return_ty, body) == [return_ty |-> return_ty, body |-> body, params |-> <<>>]
LambdaWith(params, return_ty, body) ==
    [return_ty |-> return_ty, body |-> body, params |-> params]
Param(ty, varargs) == [ty |-> ty, varargs |-> varargs]
Missing == Node("Missing", 0, 0)
\* Expr::BoolLiteral(v): n holds `v as i64`
BoolValue(v) == [Node("BoolLiteral", 0, 0) EXCEPT !.n = Num(IF v THEN 1 ELSE 0)]
BoolLiteral == BoolValue(TRUE)
ParamRef(idx) == Node("Param", idx, 0)
If(cond, body, else_branch) == [Node("If", cond, body) EXCEPT !.c = else_branch]
Index(source, index) == Node("Index", source, index)
Deref(pointer) == Node("Deref", pointer, 0)
Cast(e, ty) == Node("Cast", e, ty)
CallWith(callee, args) == [Node("Call", callee, 0) EXCEPT !.ss = args]
Switch(scrutinee, names, bodies, default) ==
    [Node("Switch", scrutinee, 0) EXCEPT !.vs = names, !.ss = bodies, !.c = default]
Comptime(body) == Node("Comptime", body, 0)
\* arm.variant_name of an arm without one
NoName == ""
Global(body) == [body |-> body, ty |-> 0]

VARIABLES
    world_bodies,    \* the Bodies of the file (never changes)
    hash_order,      \* iteration order of the FxHashSets of this run
    expr_tys,        \* InferenceResult.expr_tys
    local_tys,       \* InferenceResult.local_tys
    meta_tys,        \* InferenceResult.meta_tys
    signatures,      \* ProjectInference.signatures (NoTy = no entry)
    all_inferred,    \* the Inferrables whose inference completed
    to_infer,        \* TopoSort<Inferrable>: [nodes, deps]
    inferred_stmts,  \* statements infer_expr has completed
    local_usages,    \* local_usages of the last GlobalInferenceCtx
    diagnostics,     \* the TyDiagnostics, in emission order
    visits,          \* per Inferrable: how often it was driven
    anchored,        \* Inferrables that were given NotYetResolved
    last,            \* record of the last scheduler step
    hist,            \* history of the run (see HistInit)
    probe,           \* the last pair of replace_weak_tys(e, ty) calls made back to back
    program,         \* the typed program handed to the back end
    functions_to_compile, \* the queue of Fqns the back end still has to compile
    functions,       \* the Fqns declared in the backend module
    compiled,        \* per Fqn: the unit FunctionCompiler::finish built
    globals,         \* the data objects defined in the backend module: [name, data]
    lambdas_to_compile, \* the queue of LambdaToCompile the back end was handed
    syntax_node,     \* a node of the syntax tree: [kind, children]
    view             \* what the accessors of the typed view of the node returned

vars == <<world_bodies, hash_order, expr_tys, local_tys, meta_tys, signatures,
          all_inferred, to_infer, inferred_stmts, local_usages, diagnostics,
          visits, anchored, last, hist, probe, program, functions_to_compile,
          functions, compiled, globals, lambdas_to_compile, syntax_node, view>>
\* the syntax node looked at through the typed views
frontend == <<syntax_node, view>>
\* the state of the back end
backend == <<program, functions_to_compile, functions, compiled, globals,
             lambdas_to_compile>>

E(e) == world_bodies.exprs[e]
S(s) == world_bodies.stmts[s]
L(l) == world_bodies.locals[l]
NExprs == Len(world_bodies.exprs)
NStmts == Len(world_bodies.stmts)
NLocals == Len(world_bodies.locals)
NGlobals == Len(world_bodies.globals)
NLambdas == Len(world_bodies.lambdas)
block_to_scope_id(e) == E(e).sc

\* the behaviour of the type library (crates/hir_ty/src/ty.rs) on an Unknown
\* operand: max_unknown is what Ty::max returns, can_unknown whether
\* can_perform accepts the operand
Lib == world_bodies.lib
LibTolerant == [max_unknown |-> "Unknown", can_unknown |-> TRUE]
LibVariants == [max_unknown : {"Unknown", "Other", "None"}, can_unknown : BOOLEAN]

\* Ty::max: the larger of two compatible types; <<>> stands for None.  What
\* it makes of an Unknown operand is the library's choice: Some(Unknown),
\* Some(the other type) or None
max(a, b) ==
    CASE a = b -> a
      [] a = TUnknown \/ b = TUnknown ->
            CASE Lib.max_unknown = "Unknown" -> TUnknown
              [] Lib.max_unknown = "Other" -> IF a = TUnknown THEN b ELSE a
              [] OTHER -> <<>>
      [] a = TNoEval -> b
      [] b = TNoEval -> a
      [] Tag(a) = Tag(b) /\ IsNumber(a) -> <<Tag(a), IntMax(a[2], b[2])>>
      [] Tag(a) = "IInt" /\ Tag(b) = "UInt" ->
            IF a[2] > b[2] \/ b[2] = 0 THEN a
            ELSE IF a[2] = 0 THEN TIInt(b[2]) ELSE <<>>
      [] Tag(a) = "UInt" /\ Tag(b) = "IInt" ->
            IF b[2] > a[2] \/ a[2] = 0 THEN b
            ELSE IF b[2] = 0 THEN TIInt(a[2]) ELSE <<>>
      [] IsInt(a) /\ Tag(b) = "Float" ->
            IF a[2] = 0 \/ b[2] = 0 \/ b[2] > a[2] THEN b ELSE <<>>
      [] Tag(a) = "Float" /\ IsInt(b) ->
            IF a[2] = 0 \/ b[2] = 0 \/ a[2] > b[2] THEN a ELSE <<>>
      [] OTHER -> <<>>

\* BinaryOp::can_perform for the arithmetic operators; whether an Unknown
\* operand passes is the library's choice
BinaryCanPerform(ty) == IsNumber(ty) \/ (ty = TUnknown /\ Lib.can_unknown)
\* BinaryOp::default_ty for the arithmetic operators ({uint})
BinaryDefaultTy == TUInt(0)
\* BinaryOp::get_possible_output_ty for the arithmetic operators:
\* <<max_ty, final_output_ty>>, or <<>> for None
BinaryOutputTy(lhs, rhs) ==
    LET m == max(lhs, rhs) IN
    IF m = <<>> THEN <<>> ELSE <<m, m>>
\* UnaryOp::can_perform / get_possible_output_ty / default_ty for Neg
UnaryCanPerform(ty) == IsNumber(ty) \/ (ty = TUnknown /\ Lib.can_unknown)
UnaryOutputTy(ty) == IF Tag(ty) = "UInt" THEN TIInt(ty[2]) ELSE ty
UnaryDefaultTy == TIInt(0)

\* an Inferrable: <<"Global", fqn>> or <<"Lambda", lambda>>
InfGlobal(g) == <<"Global", g>>
InfLambda(l) == <<"Lambda", l>>
Inferrables == {InfGlobal(g) : g \in 1..NGlobals} \cup {InfLambda(l) : l \in 1..NLambdas}

RECURSIVE Concat(_, _)
\* the concatenation of F[i] for i in 1..n
Concat(F, n) == IF n = 0 THEN <<>> ELSE Concat(F, n - 1) \o F[n]

RECURSIVE ExprOrder(_), StmtOrder(_), TyValues(_)
\* the values written inside the type expression t (array sizes,
\* discriminants, bodies of comptime blocks), which infer_expr reaches; the
\* type expressions of an annotation themselves are left to const_ty
TyValues(t) ==
    IF t = 0 THEN <<>>
    ELSE LET x == E(t) IN
      CASE x.k = "ArrayDecl" -> ExprOrder(x.a) \o TyValues(x.b)
        [] x.k \in {"Ref", "Paren"} -> TyValues(x.a)
        [] x.k = "EnumDecl" ->
             Concat([i \in 1..Len(x.ss) |-> ExprOrder(x.ss[i])], Len(x.ss))
        [] x.k = "StructDecl" ->
             Concat([i \in 1..Len(x.ss) |-> TyValues(x.ss[i])], Len(x.ss))
        [] x.k = "Comptime" -> ExprOrder(x.a)
        [] OTHER -> <<>>
\* bodies.descendants(expr, DescentOpts::Infer) in the order infer_expr
\* walks it (reversed: children before parents, statements in source order)
ExprOrder(e) ==
    IF e = 0 THEN <<>>
    ELSE LET x == E(e) IN
      CASE x.k \in {"Binary", "While", "Index"} ->
             ExprOrder(x.a) \o ExprOrder(x.b) \o <<<<"E", e>>>>
        [] x.k \in {"Unary", "Paren", "Member", "Deref", "Comptime", "Ref"} ->
             ExprOrder(x.a) \o <<<<"E", e>>>>
        [] x.k = "Cast" -> TyValues(x.b) \o ExprOrder(x.a) \o <<<<"E", e>>>>
        [] x.k = "If" ->
             ExprOrder(x.a) \o ExprOrder(x.b) \o ExprOrder(x.c) \o <<<<"E", e>>>>
        [] x.k \in {"Call", "Switch"} ->
             ExprOrder(x.a)
                \o Concat([i \in 1..Len(x.ss) |-> ExprOrder(x.ss[i])], Len(x.ss))
                \o ExprOrder(x.c) \o <<<<"E", e>>>>
        [] x.k = "Block" ->
             Concat([i \in 1..Len(x.ss) |-> StmtOrder(x.ss[i])], Len(x.ss))
                \o ExprOrder(x.a) \o <<<<"E", e>>>>
        [] x.k \in {"ArrayLiteral", "Directive"} ->
             Concat([i \in 1..Len(x.ss) |-> ExprOrder(x.ss[i])], Len(x.ss))
                \o <<<<"E", e>>>>
        [] x.k = "StructLiteral" ->
             TyValues(x.a)
                \o Concat([i \in 1..Len(x.ss) |-> ExprOrder(x.ss[i])], Len(x.ss))
                \o <<<<"E", e>>>>
        [] x.k \in {"ArrayDecl", "EnumDecl", "StructDecl"} -> TyValues(e) \o <<<<"E", e>>>>
        [] x.k = "Lambda" ->
             LET lam == world_bodies.lambdas[x.a] IN
             Concat([i \in 1..Len(lam.params) |-> TyValues(lam.params[i].ty)],
                    Len(lam.params))
                \o TyValues(lam.return_ty) \o <<<<"E", e>>>>
        [] OTHER -> <<<<"E", e>>>>
StmtOrder(s) ==
    LET x == S(s) IN
      CASE x.k = "LocalDef" ->
             TyValues(L(x.a).ty) \o ExprOrder(L(x.a).value) \o <<<<"S", s>>>>
        [] x.k = "Assign" -> ExprOrder(x.a) \o ExprOrder(x.b) \o <<<<"S", s>>>>
        [] OTHER -> ExprOrder(x.a) \o <<<<"S", s>>>>

RECURSIVE AllOrder(_), AllStmtOrder(_)
\* bodies.descendants(expr, DescentOpts::All { include_lambdas: false }) in
\* the order is_safe_to_compile pops it: type annotations included, the
\* bodies of lambdas not
AllOrder(e) ==
    IF e = 0 THEN <<>>
    ELSE LET x == E(e) IN
      CASE x.k \in {"Binary", "While", "Index", "Cast"} ->
             AllOrder(x.a) \o AllOrder(x.b) \o <<<<"E", e>>>>
        [] x.k \in {"Unary", "Paren", "Member", "Deref", "Comptime", "Ref"} ->
             AllOrder(x.a) \o <<<<"E", e>>>>
        [] x.k = "ArrayDecl" -> AllOrder(x.a) \o AllOrder(x.b) \o <<<<"E", e>>>>
        [] x.k = "If" ->
             AllOrder(x.a) \o AllOrder(x.b) \o AllOrder(x.c) \o <<<<"E", e>>>>
        [] x.k \in {"Call", "Switch"} ->
             AllOrder(x.a)
                \o Concat([i \in 1..Len(x.ss) |-> AllOrder(x.ss[i])], Len(x.ss))
                \o AllOrder(x.c) \o <<<<"E", e>>>>
        [] x.k = "Block" ->
             Concat([i \in 1..Len(x.ss) |-> AllStmtOrder(x.ss[i])], Len(x.ss))
                \o AllOrder(x.a) \o <<<<"E", e>>>>
        [] x.k \in {"ArrayLiteral", "EnumDecl", "StructDecl", "Directive"} ->
             Concat([i \in 1..Len(x.ss) |-> AllOrder(x.ss[i])], Len(x.ss))
                \o <<<<"E", e>>>>
        [] x.k = "StructLiteral" ->
             AllOrder(x.a)
                \o Concat([i \in 1..Len(x.ss) |-> AllOrder(x.ss[i])], Len(x.ss))
                \o <<<<"E", e>>>>
        [] OTHER -> <<<<"E", e>>>>
AllStmtOrder(s) ==
    LET x == S(s) IN
      CASE x.k = "LocalDef" ->
             AllOrder(L(x.a).ty) \o AllOrder(L(x.a).value) \o <<<<"S", s>>>>
        [] x.k = "Assign" -> AllOrder(x.a) \o AllOrder(x.b) \o <<<<"S", s>>>>
        [] OTHER -> AllOrder(x.a) \o <<<<"S", s>>>>

\* the direct sub-expressions of a statement and of an expression, type
\* annotations and function bodies included
StmtKids(s) ==
    LET x == S(s) IN
    CASE x.k = "LocalDef" -> {L(x.a).ty, L(x.a).value}
      [] x.k = "Assign" -> {x.a, x.b}
      [] OTHER -> {x.a}
Kids(a) ==
    LET x == E(a) IN
    (CASE x.k \in {"Binary", "While", "Index", "Cast", "ArrayDecl"} -> {x.a, x.b}
       [] x.k \in {"Unary", "Paren", "Member", "Deref", "Comptime", "Ref"} -> {x.a}
       [] x.k = "If" -> {x.a, x.b, x.c}
       [] x.k \in {"Call", "Switch"} -> {x.a, x.c} \cup {x.ss[i] : i \in 1..Len(x.ss)}
       [] x.k = "Block" -> {x.a} \cup UNION {StmtKids(x.ss[i]) : i \in 1..Len(x.ss)}
       [] x.k \in {"ArrayLiteral", "EnumDecl", "StructDecl", "Directive"} ->
            {x.ss[i] : i \in 1..Len(x.ss)}
       [] x.k = "StructLiteral" -> {x.a} \cup {x.ss[i] : i \in 1..Len(x.ss)}
       [] x.k = "Lambda" ->
            LET lam == world_bodies.lambdas[x.a] IN
            {lam.body, lam.return_ty} \cup {lam.params[i].ty : i \in 1..Len(lam.params)}
       [] OTHER -> {}) \ {0}
\* the sub-expressions whose recorded types the rule of expression e reads
Operands(e) ==
    LET x == E(e) IN
    (CASE x.k = "Block" -> {x.a}
       [] x.k = "Cast" -> {x.a}
       [] x.k = "Lambda" -> {}
       [] x.k = "ArrayDecl" -> {x.a}
       [] x.k = "StructLiteral" -> {x.ss[i] : i \in 1..Len(x.ss)}
       [] x.k \in {"StructDecl", "PrimitiveTy"} -> {}
       [] OTHER -> Kids(e)) \ {0}

\* get_referenced_locals: the locals named below expr
get_referenced_locals(e) ==
    LET o == ExprOrder(e) IN
    {E(o[i][2]).a : i \in {j \in 1..Len(o) : o[j][1] = "E" /\ E(o[j][2]).k = "Local"}}

RECURSIVE SetToSeqAsc(_)
SetToSeqAsc(set) ==
    IF set = {} THEN <<>>
    ELSE LET m == CHOOSE x \in set : \A y \in set : x <= y
         IN <<m>> \o SetToSeqAsc(set \ {m})
Reverse(seq) == [i \in 1..Len(seq) |-> seq[Len(seq) + 1 - i]]
\* the statements find_usages can put into the usages of local l: those
\* with an expression that names l
UsageStmts(l) ==
    {s \in 1..NStmts : l \in UNION {get_referenced_locals(e) : e \in StmtKids(s) \ {0}}}
\* every order of the members of set
Orders(set) ==
    LET n == Cardinality(set) IN
    {f \in [1..n -> set] : \A i, j \in 1..n : f[i] = f[j] => i = j}
RECURSIVE OrdersUpTo(_)
\* the orders of the usages of the locals 1..l, one order per local
OrdersUpTo(l) ==
    IF l = 0 THEN {<<>>}
    ELSE {Append(f, o) : f \in OrdersUpTo(l - 1), o \in Orders(UsageStmts(l))}
\* the orders the FxHashSets of usages can have, one per local (each local
\* has a set of its own): the order depends on the hasher of the build
\* and on the layout of the table, so every order of the statements is one
HashOrders == OrdersUpTo(NLocals)
RECURSIVE InOrder(_, _, _)
\* the members of set in the order of the sequence order[i..]
InOrder(order, i, set) ==
    IF i > Len(order) THEN <<>>
    ELSE IF order[i] \in set THEN <<order[i]>> \o InOrder(order, i + 1, set)
    ELSE InOrder(order, i + 1, set)
\* the order in which a `for` loop visits the usages of local l
HashIter(l, set) == InOrder(hash_order[l], 1, set)

(***************************************************************************)
(* The mutable part of a GlobalInferenceCtx, threaded through the calls:   *)
(*  c.expr_tys, c.local_tys, c.meta_tys, c.local_usages, c.inferred_stmts, *)
(*  c.diagnostics, c.queued (lambdas inserted into to_infer),              *)
(*  c.panic (a Rust panic was raised), c.overrun (the call chain got       *)
(*  deeper than MaxDepth), c.hang (a callee never returns), c.h (history:  *)
(*  weakening writes, rule runs, rules re-run on a memoized expression,    *)
(*  the expression the walk stopped at, the statements re-inferred, the    *)
(*  expression whose rule is running, the diagnostics pushed while one of  *)
(*  its operands was Unknown), c.param_tys (the ParamTys of the lambda     *)
(*  being inferred).                                                       *)
(***************************************************************************)
Diag(kind, e, g) == [kind |-> kind, expr |-> e, fqn |-> g, ty |-> NoTy]
DiagTy(kind, e, ty) == [kind |-> kind, expr |-> e, fqn |-> 0, ty |-> ty]
RECURSIVE Invoke(_)
Push(c, d) == Invoke(<<"push", c, d>>)
\* self.diagnostics.push(d); the history notes the diagnostics pushed by a
\* rule one of whose operands is Unknown (cascade)
push(c, d) ==
    [c EXCEPT !.diagnostics = Append(@, d),
              !.h.cascade = IF c.h.cur # 0
                               /\ \E k \in Operands(c.h.cur) : c.expr_tys[k] = TUnknown
                            THEN @ \cup {Len(c.diagnostics) + 1} ELSE @]
Dead(c) == c.panic \/ c.overrun \/ c.hang
Panic(c) == [c EXCEPT !.panic = TRUE]

\* expr_tys.insert(e, ty); the history notes a strong entry turning weak
SetExprTy(c, e, ty) ==
    [c EXCEPT !.expr_tys[e] = ty,
              !.h.weakened = @ \/ (c.expr_tys[e] # NoTy /\ IsStrong(c.expr_tys[e]) /\ IsWeak(ty))]
\* local_tys.insert(l, ty)
SetLocalTy(c, l, ty) ==
    [c EXCEPT !.local_tys[l] = ty,
              !.h.weakened = @ \/ (c.local_tys[l] # NoTy /\ IsStrong(c.local_tys[l]) /\ IsWeak(ty))]

R(c, r) == [c |-> c, r |-> r]

ExpectMatch(c, found, expected, e) == Invoke(<<"expect_match", c, found, expected, e>>)
\* GlobalInferenceCtx::expect_match
expect_match(c, found, expected, e) ==
    IF E(e).k = "IntLiteral" /\ IsInt(expected)
    THEN LET c1 == IF expected[2] # 255 THEN SetExprTy(c, e, expected) ELSE c
             mx == get_max_int_size(expected)
         IN R(IF mx # <<>> /\ NumGt(E(e).n, mx)
              THEN Push(c1, Diag("IntTooBigForType", e, 0)) ELSE c1, TRUE)
    ELSE IF is_unknown(found) \/ is_unknown(expected) THEN R(c, FALSE)
    ELSE IF ~can_fit_into(found, expected) THEN R(Push(c, Diag("Mismatch", e, 0)), FALSE)
    ELSE R(c, TRUE)

\* the type the strong_int_to_weak_int / array_to_slice tests of
\* reinfer_expr tolerate
strong_int_to_weak_int(previous_ty, new_ty) ==
    IsInt(previous_ty) /\ previous_ty[2] # 0 /\ new_ty \in {TUInt(0), TIInt(0)}
array_to_slice(previous_ty, new_ty) ==
    /\ IsSlice(previous_ty) /\ IsArray(new_ty)
    /\ (is_weak_replaceable_by(previous_ty[2], new_ty[4]) \/ is_equal_to(previous_ty[2], new_ty[4]))

(***************************************************************************)
(* The methods of GlobalInferenceCtx call each other (replace_weak_tys,    *)
(* reinfer_usages and reinfer_expr recursively).  A call of one of them is *)
(* Invoke(<<method, arguments>>); the definitions in lower case are the    *)
(* bodies of the methods.                                                  *)
(***************************************************************************)
ReplaceWeakTys(c, expr, new_ty, d) == Invoke(<<"replace_weak_tys", c, expr, new_ty, d>>)
ReplaceEach(c, items, i, ty, d) == Invoke(<<"replace_each", c, items, i, ty, d>>)
ReplaceMembers(c, x, i, new_ty, d) == Invoke(<<"replace_members", c, x, i, new_ty, d>>)
ReplaceLocal(c1, l, new_ty, d) == Invoke(<<"replace_weak_tys_local", c1, l, new_ty, d>>)
ReinferUsages(c, usages, i, d) == Invoke(<<"reinfer_usages", c, usages, i, d>>)
ReinferWalk(c, order, i, d) == Invoke(<<"reinfer_walk", c, order, i, d>>)
ReinferExpr(c, expr, d) == Invoke(<<"reinfer_expr", c, expr, d>>)
InferRule(c, expr, sigs) == Invoke(<<"infer_rule", c, expr, sigs>>)
InferStmt(c, stmt) == Invoke(<<"infer_stmt", c, stmt>>)
InferWalk(c, order, i, sigs) == Invoke(<<"infer_walk", c, order, i, sigs>>)
InferExpr(c, expr, sigs) == Invoke(<<"infer_expr", c, expr, sigs>>)
FinishBody(c, body, expected_ty, global, sigs, inferred) ==
    Invoke(<<"finish_body", c, body, expected_ty, global, sigs, inferred>>)
ConstTy(c, expr) == Invoke(<<"const_ty", c, expr>>)
ConstTyComptime(c, expr) == Invoke(<<"const_ty_comptime", c, expr>>)
ConstTyArrayDecl(c, expr) == Invoke(<<"const_ty_array_decl", c, expr>>)
ConstTyEnumDecl(c, expr) == Invoke(<<"const_ty_enum_decl", c, expr>>)
ConstData(c, expr, d) == Invoke(<<"const_data", c, expr, d>>)
IsSafeToCompile(c, expr) == Invoke(<<"is_safe_to_compile", c, expr>>)
EvalComptime(c, expr, via) == Invoke(<<"eval_comptime", c, expr, via>>)
Noted(c, ev, via, expr, result, deps) == Invoke(<<"note", c, ev, via, expr, result, deps>>)
GlobalBody(c, g, sigs, inferred) == Invoke(<<"global_body", c, g, sigs, inferred>>)

\* bodies.scope_id_usages(id): the statements that leave the scope of e,
\* in the order of the lowering
scope_id_usages(e) ==
    SetToSeqAsc({s \in 1..NStmts : S(s).k \in {"Break", "Continue"} /\ S(s).b = e})
\* the values of the usages `Stmt::Break { value: Some(value), .. }` of e
BreakValues(e) ==
    LET u == scope_id_usages(e)
        hit == SetToSeqAsc({i \in 1..Len(u) : S(u[i]).k = "Break" /\ S(u[i]).a # 0})
    IN [i \in 1..Len(hit) |-> S(u[hit[i]]).a]

RECURSIVE UsagesMax(_, _, _, _)
\* the loop of all_usages_ty over usages[i..]; max_ty = NoTy is None
UsagesMax(c, usages, i, max_ty) ==
    IF i > Len(usages) THEN max_ty
    ELSE LET x == S(usages[i]) IN
         IF x.k # "Break" THEN UsagesMax(c, usages, i + 1, max_ty)
         ELSE LET ty == IF x.a # 0 THEN c.expr_tys[x.a] ELSE TVoid IN
              UsagesMax(c, usages, i + 1, IF max_ty = NoTy THEN ty ELSE max(max_ty, ty))
\* all_usages_ty of reinfer_expr
all_usages_ty(c, e) ==
    LET m == UsagesMax(c, scope_id_usages(e), 1, NoTy) IN
    IF m = NoTy THEN TVoid ELSE m

\* the Expr::Local arm without the replacement of the local's value
ReplaceLocalKeepValue(c1, l, new_ty, d) ==
    LET usages == c1.local_usages[l]
        c4 == [c1 EXCEPT !.local_usages[l] = {}]
    IN ReinferUsages(c4, HashIter(l, usages), 1, d + 1)

\* the Expr::Local arm re-inferring the usages of the local until none is
\* left, without `usages.clear()`
ReplaceLocalKeepUsages(c1, l, new_ty, d) ==
    LET v == IF L(l).value # 0 THEN ReplaceWeakTys(c1, L(l).value, new_ty, d + 1)
             ELSE R(c1, FALSE)
        c3 == IF v.r THEN SetLocalTy(v.c, l, new_ty) ELSE v.c
        c5 == ReinferUsages(c3, HashIter(l, c3.local_usages[l]), 1, d + 1)
    IN IF Dead(c5) \/ c5.local_usages[l] = {} THEN c5
       ELSE IF d > MaxDepth THEN [c5 EXCEPT !.overrun = TRUE]
       ELSE ReplaceLocal(c5, l, new_ty, d + 1)

\* the Expr::Local arm of replace_weak_tys: replace the value of the
\* local, then take and clear its usages and re-infer them
replace_weak_tys_local(c1, l, new_ty, d) ==
    LET v == IF L(l).value # 0 THEN ReplaceWeakTys(c1, L(l).value, new_ty, d + 1)
             ELSE R(c1, FALSE)
        c3 == IF v.r THEN SetLocalTy(v.c, l, new_ty) ELSE v.c
        usages == c3.local_usages[l]
        c4 == [c3 EXCEPT !.local_usages[l] = {}]
    IN ReinferUsages(c4, HashIter(l, usages), 1, d + 1)

\* GlobalInferenceCtx::replace_weak_tys; d is the depth of this call
replace_weak_tys(c, expr, new_ty0, d) ==
    IF Dead(c) THEN R(c, FALSE)
    ELSE IF d > MaxDepth THEN R([c EXCEPT !.overrun = TRUE], FALSE)
    ELSE IF E(expr).k = "Missing" THEN R(c, FALSE)
    ELSE IF c.expr_tys[expr] = NoTy THEN R(Panic(c), FALSE)
    ELSE LET found_ty == c.expr_tys[expr] IN
    IF ~is_weak_replaceable_by(found_ty, new_ty0) THEN R(c, FALSE)
    ELSE
    LET to_slice == IsArray(found_ty) /\ IsSlice(new_ty0)
        new_ty == IF to_slice THEN TArray(FALSE, found_ty[3], new_ty0[2]) ELSE new_ty0
        really_replaced == ~to_slice
        x == E(expr)
        c1 == SetExprTy(c, expr, new_ty)
        c2 ==
          CASE x.k = "IntLiteral" ->
                 LET mx == get_max_int_size(new_ty) IN
                 IF mx # <<>> /\ NumGt(x.n, mx)
                 THEN Push(c1, Diag("IntTooBigForType", expr, 0)) ELSE c1
            [] x.k = "ArrayLiteral" -> ReplaceEach(c1, x.ss, 1, new_ty[4], d + 1)
            [] x.k = "Paren" /\ x.a # 0 -> ReplaceWeakTys(c1, x.a, new_ty, d + 1).c
            [] x.k = "Block" ->
                 LET brk == IF block_to_scope_id(expr)
                            THEN ReplaceEach(c1, BreakValues(expr), 1, new_ty, d + 1)
                            ELSE c1
                 IN IF x.a # 0 THEN ReplaceWeakTys(brk, x.a, new_ty, d + 1).c ELSE brk
            [] x.k = "While" /\ x.a = 0 ->
                 IF block_to_scope_id(expr)
                 THEN ReplaceEach(c1, BreakValues(expr), 1, new_ty, d + 1)
                 ELSE c1
            [] x.k = "If" ->
                 LET b == ReplaceWeakTys(c1, x.b, new_ty, d + 1).c IN
                 IF x.c # 0 THEN ReplaceWeakTys(b, x.c, new_ty, d + 1).c ELSE b
            [] x.k = "Switch" ->
                 LET arms == ReplaceEach(c1, x.ss, 1, new_ty, d + 1) IN
                 IF x.c # 0 THEN ReplaceWeakTys(arms, x.c, new_ty, d + 1).c ELSE arms
            [] x.k = "Comptime" -> ReplaceWeakTys(c1, x.a, new_ty, d + 1).c
            [] x.k = "Deref" ->
                 LET mutable == IF IsPointer(new_ty) THEN new_ty[2] ELSE FALSE IN
                 ReplaceWeakTys(c1, x.a, TPointer(mutable, new_ty), d + 1).c
            [] x.k = "Ref" ->
                 \* the two `as_pointer().unwrap()`
                 IF ~IsPointer(found_ty) \/ ~IsPointer(new_ty) THEN Panic(c1)
                 ELSE SetExprTy(ReplaceWeakTys(c1, x.a, new_ty[3], d + 1).c,
                                expr, TPointer(found_ty[2], new_ty[3]))
            [] x.k = "Binary" ->
                 ReplaceWeakTys(ReplaceWeakTys(c1, x.a, new_ty, d + 1).c, x.b, new_ty, d + 1).c
            [] x.k = "Unary" -> ReplaceWeakTys(c1, x.a, new_ty, d + 1).c
            [] x.k = "Local" -> ReplaceLocal(c1, x.a, new_ty, d)
            [] x.k = "StructLiteral" ->
                 \* `new_ty.as_struct().unwrap()`
                 IF ~IsStruct(new_ty) THEN Panic(c1)
                 ELSE ReplaceMembers(c1, x, 1, new_ty, d + 1)
            [] OTHER -> c1
    IN R(c2, really_replaced)

\* the loop of the Expr::StructLiteral arm over members[i..];
\* `member_tys[&name.name]` panics on a name new_ty does not have
replace_members(c, x, i, new_ty, d) ==
    IF Dead(c) \/ i > Len(x.ss) THEN c
    ELSE IF x.vs[i] = "" THEN ReplaceMembers(c, x, i + 1, new_ty, d)
    ELSE IF x.vs[i] \notin MemberNames(new_ty) THEN Panic(c)
    ELSE ReplaceMembers(ReplaceWeakTys(c, x.ss[i], MemberTyLast(new_ty, x.vs[i]), d).c,
                        x, i + 1, new_ty, d)

\* `for item in items { self.replace_weak_tys(item, ty) }`
replace_each(c, items, i, ty, d) ==
    IF i > Len(items) THEN c
    ELSE ReplaceEach(ReplaceWeakTys(c, items[i], ty, d).c, items, i + 1, ty, d)

\* one statement of GlobalInferenceCtx::reinfer_usages
ReinferUsage(c0, usage, d) ==
    LET x == S(usage)
        c == [c0 EXCEPT !.h.reinferred = @ \cup {usage}]
    IN
    CASE x.k = "LocalDef" ->
           LET user_local_body == L(x.a) IN
           IF user_local_body.value = 0 THEN c
           ELSE LET v == ReinferExpr(c, user_local_body.value, d) IN
                IF Dead(v.c) THEN v.c
                ELSE IF user_local_body.ty = 0 THEN SetLocalTy(v.c, x.a, v.r) ELSE v.c
      [] x.k = "Assign" ->
           LET dv == ReinferExpr(c, x.a, d)
               vv == ReinferExpr(dv.c, x.b, d)
               dest_ty == dv.r
               value_ty == vv.r
               c1 == vv.c
           IN IF Dead(c1) THEN c1
              ELSE IF x.op
              THEN LET output_ty == BinaryOutputTy(dest_ty, value_ty) IN
                   IF output_ty = <<>> THEN c1
                   ELSE ReplaceWeakTys(ReplaceWeakTys(c1, x.a, output_ty[1], d).c,
                                       x.b, output_ty[1], d).c
              ELSE IF is_weak_replaceable_by(dest_ty, value_ty)
                   THEN ReplaceWeakTys(c1, x.a, value_ty, d).c
                   ELSE IF can_fit_into(value_ty, dest_ty)
                        THEN ReplaceWeakTys(c1, x.b, value_ty, d).c
                        ELSE c1
      [] x.k = "Break" -> IF x.a # 0 THEN ReinferExpr(c, x.a, d).c ELSE c
      [] x.k = "Continue" -> c
      [] OTHER -> ReinferExpr(c, x.a, d).c

\* GlobalInferenceCtx::reinfer_usages over the statements usages[i..]
reinfer_usages(c, usages, i, d) ==
    IF Dead(c) \/ i > Len(usages) THEN c
    ELSE IF d > MaxDepth THEN [c EXCEPT !.overrun = TRUE]
    ELSE ReinferUsages(ReinferUsage(c, usages[i], d + 1), usages, i + 1, d)

\* a check that records new_ty whenever it does not panic
ReinferCheckAlwaysInsert(previous_ty, new_ty) ==
    IF previous_ty # new_ty
       /\ ~(is_weak_replaceable_by(previous_ty, new_ty)
            \/ array_to_slice(previous_ty, new_ty)
            \/ strong_int_to_weak_int(previous_ty, new_ty))
    THEN "panic"
    ELSE "insert"

\* the consistency check at the end of a reinfer_expr step: panic, keep
\* the recorded type, or record new_ty
ReinferCheck(previous_ty, new_ty) ==
    IF previous_ty # new_ty
       /\ ~(is_weak_replaceable_by(previous_ty, new_ty)
            \/ array_to_slice(previous_ty, new_ty)
            \/ strong_int_to_weak_int(previous_ty, new_ty))
    THEN "panic"
    ELSE IF ~array_to_slice(previous_ty, new_ty) /\ ~strong_int_to_weak_int(previous_ty, new_ty)
         THEN "insert" ELSE "keep"

\* the panic! of the consistency check; the history keeps the two types
Inconsistent(c, previous_ty, new_ty) ==
    Panic([c EXCEPT !.h.mismatch = <<previous_ty, new_ty>>])

\* one descendant of the loop of GlobalInferenceCtx::reinfer_expr
ReinferStep(c, next, d) ==
    IF next[1] = "E" THEN
      LET expr == next[2]
          x == E(expr)
          previous_ty == c.expr_tys[expr]
      IN
      IF previous_ty = NoTy THEN Panic(c)
      ELSE IF previous_ty = TUnknown \/ previous_ty = TNoEval THEN c
      ELSE
      LET ty(e) == c.expr_tys[e]
          bin == BinaryOutputTy(ty(x.a), ty(x.b))
          \* <<ctx after the arm, new_ty>>; new_ty = NoTy is `continue`
          arm ==
            CASE x.k = "IntLiteral" ->
                   IF previous_ty = TIInt(0) /\ NumGt(x.n, I32Max) THEN <<c, TIInt(64)>>
                   ELSE IF previous_ty = TUInt(0) /\ NumGt(x.n, U32Max) THEN <<c, TUInt(64)>>
                   ELSE <<c, NoTy>>
              [] x.k = "Ref" ->
                   \* tys[*inner]: the index panics on an inner without a type
                   IF ty(x.a) = NoTy THEN <<Panic(c), NoTy>>
                   ELSE <<c, IF ty(x.a) = TType THEN TType
                             ELSE TPointer(x.ty[2], ty(x.a))>>
              [] x.k = "Binary" ->
                   IF bin # <<>>
                   THEN <<ReplaceWeakTys(ReplaceWeakTys(c, x.a, bin[1], d + 1).c,
                                         x.b, bin[1], d + 1).c, bin[2]>>
                   ELSE <<c, BinaryDefaultTy>>
              [] x.k = "Unary" ->
                   IF UnaryCanPerform(ty(x.a)) THEN <<c, UnaryOutputTy(ty(x.a))>>
                   ELSE <<c, UnaryDefaultTy>>
              [] x.k = "Block" ->
                   LET tail_ty == IF x.a # 0 THEN ty(x.a) ELSE NoTy
                       usages_ty == all_usages_ty(c, expr)
                   IN
                   IF block_to_scope_id(expr)
                   THEN IF tail_ty # NoTy
                        THEN <<c, IF max(usages_ty, tail_ty) = <<>> THEN TUnknown
                                  ELSE max(usages_ty, tail_ty)>>
                        ELSE <<c, usages_ty>>
                   ELSE <<c, IF tail_ty # NoTy THEN tail_ty ELSE TVoid>>
              [] x.k = "Deref" ->
                   <<c, IF IsPointer(ty(x.a)) THEN ty(x.a)[3] ELSE TUnknown>>
              [] x.k = "Index" ->
                   LET source_ty == StripPointers(ty(x.a)) IN
                   <<c, IF IsArray(source_ty) THEN source_ty[4]
                        ELSE IF IsSlice(source_ty) THEN source_ty[2]
                        ELSE TUnknown>>
              [] x.k = "If" ->
                   IF x.c # 0
                   THEN <<c, IF max(ty(x.b), ty(x.c)) = <<>> THEN TUnknown
                             ELSE max(ty(x.b), ty(x.c))>>
                   ELSE <<c, IF ty(x.b) = TNoEval THEN TVoid ELSE ty(x.b)>>
              [] x.k = "While" ->
                   IF x.a # 0 THEN <<c, TVoid>>
                   ELSE IF block_to_scope_id(expr) THEN <<c, all_usages_ty(c, expr)>>
                   ELSE <<c, TVoid>>
              [] x.k = "Local" ->
                   \* local_tys[*local]: the index panics on a local without a type
                   IF c.local_tys[x.a] = NoTy THEN <<Panic(c), NoTy>>
                   ELSE <<c, c.local_tys[x.a]>>
              [] OTHER -> <<c, NoTy>>
          c1 == arm[1]
          new_ty == arm[2]
      IN IF Dead(c1) \/ new_ty = NoTy THEN c1
         ELSE LET verdict == ReinferCheck(previous_ty, new_ty) IN
              IF verdict = "panic" THEN Inconsistent(c1, previous_ty, new_ty)
              ELSE IF verdict = "insert" THEN SetExprTy(c1, expr, new_ty)
              ELSE c1
    ELSE
      LET x == S(next[2]) IN
      IF x.k # "LocalDef" THEN c
      ELSE LET def_body == L(x.a) IN
           IF def_body.ty # 0 \/ def_body.value = 0 THEN c
           ELSE LET previous_ty == c.local_tys[x.a]
                    new_ty == c.expr_tys[def_body.value]
                IN IF previous_ty = NoTy \/ new_ty = NoTy THEN Panic(c)
                   ELSE LET verdict == ReinferCheck(previous_ty, new_ty) IN
                        IF verdict = "panic" THEN Inconsistent(c, previous_ty, new_ty)
                        ELSE IF verdict = "insert" THEN SetLocalTy(c, x.a, new_ty)
                        ELSE c

\* the loop of GlobalInferenceCtx::reinfer_expr over descendants[i..]
reinfer_walk(c, order, i, d) ==
    IF Dead(c) \/ i > Len(order) THEN c
    ELSE ReinferWalk(ReinferStep(c, order[i], d), order, i + 1, d)

\* GlobalInferenceCtx::reinfer_expr; d is the depth of this call
reinfer_expr(c, expr, d) ==
    IF Dead(c) THEN R(c, TUnknown)
    ELSE IF d > MaxDepth THEN R([c EXCEPT !.overrun = TRUE], TUnknown)
    ELSE IF c.expr_tys[expr] = NoTy THEN R(Panic(c), TUnknown)
    ELSE IF c.expr_tys[expr] = TUnknown THEN R(c, TUnknown)
    ELSE LET c1 == ReinferWalk(c, ExprOrder(expr), 1, d)
         IN R(c1, c1.expr_tys[expr])

\* GlobalInferenceCtx::expect_block_match; found_expr = 0 and r = NoTy stand
\* for None.  Without a max the two unwraps come first: the block has a scope
\* id and a usage
ExpectBlockMatch(c, found_expr, found_ty, block_expr, block_ty) ==
    IF is_unknown(found_ty) \/ is_unknown(block_ty) THEN R(c, NoTy)
    ELSE LET m == max(block_ty, found_ty) IN
         IF m # <<>>
         THEN R(IF found_expr # 0
                THEN ReplaceWeakTys(SetExprTy(c, block_expr, m), found_expr, m, 1).c
                ELSE SetExprTy(c, block_expr, m), m)
         ELSE IF ~block_to_scope_id(block_expr) \/ scope_id_usages(block_expr) = <<>>
         THEN R(Panic(c), NoTy)
         ELSE R(SetExprTy(Push(c, Diag("Mismatch",
                                       IF found_expr # 0 THEN found_expr ELSE block_expr, 0)),
                          block_expr, TUnknown), NoTy)

RECURSIVE get_mutability(_, _, _, _)
\* GlobalInferenceCtx::get_mutability(expr, assignment, deref): the name of
\* the ExprMutability variant
get_mutability(c, expr, assignment, deref) ==
    LET x == E(expr)
        ptr(ty) == IF IsPointer(ty) THEN
                     IF deref THEN IF ty[2] THEN "Mutable" ELSE "ImmutableRef"
                     ELSE IF assignment
                          THEN IF ty[2] THEN "NotMutatingRefThroughDeref" ELSE "ImmutableRef"
                          ELSE "Other"
                   ELSE "Other"
    IN
    CASE x.k \in {"Missing", "ArrayLiteral", "StructLiteral"} -> "Mutable"
      [] x.k = "Ref" -> IF x.ty[2] THEN "Mutable" ELSE "ImmutableRef"
      [] x.k = "Deref" -> get_mutability(c, x.a, assignment, TRUE)
      [] x.k = "Index" ->
           get_mutability(c, x.a, assignment, deref \/ IsPointer(c.expr_tys[x.a]))
      [] x.k = "Block" /\ x.a # 0 -> get_mutability(c, x.a, assignment, deref)
      [] x.k = "Local" /\ deref ->
           IF L(x.a).value # 0 THEN get_mutability(c, L(x.a).value, FALSE, deref)
           ELSE "Mutable"
      [] x.k = "Local" /\ ~deref ->
           IF L(x.a).mutable THEN "Mutable" ELSE "ImmutableBinding"
      [] x.k = "Param" ->
           IF ptr(c.param_tys[x.a].ty) # "Other" THEN ptr(c.param_tys[x.a].ty)
           ELSE "ImmutableParam"
      [] x.k = "LocalGlobal" -> "ImmutableGlobal"
      [] x.k = "Member" ->
           IF c.expr_tys[x.a] = TFile THEN "ImmutableGlobal"
           ELSE IF deref
           THEN IF IsPointer(c.expr_tys[expr]) /\ ~c.expr_tys[expr][2] THEN "ImmutableRef"
                ELSE "Mutable"
           ELSE get_mutability(c, x.a, assignment, deref \/ IsPointer(c.expr_tys[x.a]))
      [] x.k = "Call" /\ deref -> "Mutable"
      [] x.k = "Cast" /\ deref ->
           IF ptr(c.expr_tys[expr]) # "Other" THEN ptr(c.expr_tys[expr]) ELSE "CannotMutate"
      [] x.k = "Paren" /\ x.a # 0 -> get_mutability(c, x.a, assignment, deref)
      [] OTHER -> "CannotMutate"

\* GlobalInferenceCtx::find_usages
find_usages(c, exprs, local_usage) ==
    LET locals == UNION {get_referenced_locals(e) : e \in exprs} IN
    [c EXCEPT !.local_usages =
        [l \in DOMAIN @ |-> IF l \in locals THEN @[l] \cup {local_usage} ELSE @[l]]]

RECURSIVE GetConstLoop(_, _, _, _, _)
\* the work-list loop of GlobalInferenceCtx::get_const: "Const", "Runtime",
\* "Unknown", "AssertFailed" (the assert_eq! on NotYetResolved fails) or
\* "Diverges" (the work list grew beyond MaxCheck)
GetConstLoop(c, to_check, idx, sigs, inferred) ==
    IF idx > Len(to_check) THEN "Const"
    ELSE IF Len(to_check) > MaxCheck THEN "Diverges"
    ELSE LET expr == to_check[idx]
             x == E(expr)
         IN
      CASE x.k \in {"Missing", "Lambda", "Import", "PrimitiveTy", "StructDecl", "Comptime",
                     "IntLiteral", "BoolLiteral"} ->
             GetConstLoop(c, to_check, idx + 1, sigs, inferred)
        [] x.k = "ArrayLiteral" /\ IsArray(c.expr_tys[expr]) ->
             GetConstLoop(c, to_check \o x.ss, idx + 1, sigs, inferred)
        [] x.k = "LocalGlobal" ->
             IF InfGlobal(x.a) \notin inferred
             THEN IF sigs[x.a] = TNotYetResolved THEN "Unknown" ELSE "AssertFailed"
             ELSE GetConstLoop(c, Append(to_check, world_bodies.globals[x.a].body),
                               idx + 1, sigs, inferred)
        [] x.k = "Local" ->
             IF L(x.a).mutable THEN "Runtime"
             ELSE IF L(x.a).value = 0 THEN "Unknown"
             ELSE GetConstLoop(c, Append(to_check, L(x.a).value), idx + 1, sigs, inferred)
        [] x.k = "Member" ->
             IF c.expr_tys[x.a] # TFile THEN "Runtime"
             ELSE IF x.b = 0 THEN "Unknown"
             ELSE IF InfGlobal(x.b) \notin inferred
             THEN IF sigs[x.b] = TNotYetResolved THEN "Unknown" ELSE "AssertFailed"
             ELSE GetConstLoop(c, to_check \o <<x.a, world_bodies.globals[x.b].body>>,
                               idx + 1, sigs, inferred)
        [] OTHER ->
             IF c.expr_tys[expr] \in {TType, TFile}
             THEN GetConstLoop(c, to_check, idx + 1, sigs, inferred)
             ELSE "Runtime"

\* GlobalInferenceCtx::get_const
get_const(c, expr, sigs, inferred) == GetConstLoop(c, <<expr>>, 1, sigs, inferred)

\* the loop of get_const never empties its work list: the call on expr does not
\* return; the history keeps the expression
Unbounded(c, expr) == [c EXCEPT !.hang = TRUE, !.h.unbounded = expr]

\* the expressions const_ty resolves to a type of their own
TyExprKinds == {"PrimitiveTy", "ArrayDecl", "Ref", "EnumDecl", "StructDecl"}

\* the result of const_ty and const_data: the ctx, the value and the Err
\* (<<>> when Ok)
Res(c, r, err) == [c |-> c, r |-> r, err |-> err]

\* `is_type` of a lambda: a signature without a body
is_type(lam) == lam.return_ty # 0 /\ E(lam.body).k = "Missing"

\* the same arms marking lambdas alone as checked
MarkLambdasOnly(c, checked, new_inf, body, pushes) ==
    IF new_inf \in checked
    THEN [verdict |-> "go", push |-> <<>>, checked |-> checked, deps |-> <<>>,
          pushed |-> <<>>]
    ELSE IF new_inf \notin c.all_inferred
    THEN [verdict |-> "err", push |-> <<>>, checked |-> checked, deps |-> <<new_inf>>,
          pushed |-> <<>>]
    ELSE [verdict |-> "go", push |-> IF pushes THEN AllOrder(body) ELSE <<>>,
          checked |-> IF new_inf[1] = "Lambda" THEN checked \cup {new_inf} ELSE checked,
          deps |-> <<>>, pushed |-> IF pushes THEN <<new_inf>> ELSE <<>>]

\* the LocalGlobal, Member and Lambda arms of is_safe_to_compile from
\* `checked.contains(&new_inf)` on: the turn goes on ("go", with the
\* descendants of body pushed on the checking stack when pushes) or the call
\* returns Err([new_inf])
Follow(c, checked, new_inf, body, pushes) ==
    IF new_inf \in checked
    THEN [verdict |-> "go", push |-> <<>>, checked |-> checked, deps |-> <<>>,
          pushed |-> <<>>]
    ELSE IF new_inf \notin c.all_inferred
    THEN [verdict |-> "err", push |-> <<>>, checked |-> checked \cup {new_inf},
          deps |-> <<new_inf>>, pushed |-> <<>>]
    ELSE [verdict |-> "go", push |-> IF pushes THEN AllOrder(body) ELSE <<>>,
          checked |-> checked \cup {new_inf}, deps |-> <<>>,
          pushed |-> IF pushes THEN <<new_inf>> ELSE <<>>]

\* TyDiagnostic::is_error: every kind but IntTooBigForType is an error
is_error(d) == d.kind # "IntTooBigForType"
\* error_exprs of is_safe_to_compile: the expressions of the diagnostics
\* that are errors
error_exprs(c) ==
    {c.diagnostics[k].expr : k \in {j \in 1..Len(c.diagnostics) : is_error(c.diagnostics[j])}}

\* one turn of the loop of is_safe_to_compile, for the descendant d:
\* "go" (with the descendants pushed on the checking stack), "false" for
\* Ok(false), or "err" for Err(deps)
SafeStep(c, d, checked) ==
    LET go == [verdict |-> "go", push |-> <<>>, checked |-> checked, deps |-> <<>>,
               pushed |-> <<>>]
        unsafe == [verdict |-> "false", push |-> <<>>, checked |-> checked, deps |-> <<>>,
                   pushed |-> <<>>]
    IN
    IF d[1] = "S"
    THEN IF S(d[2]).k \in {"Break", "Continue"} /\ S(d[2]).b = 0 THEN unsafe ELSE go
    ELSE LET expr == d[2]
             x == E(expr)
         IN
      IF expr \in error_exprs(c) THEN unsafe
      ELSE IF c.meta_tys[expr] # NoTy
      THEN IF is_unknown(c.meta_tys[expr]) THEN unsafe ELSE go
      ELSE IF c.expr_tys[expr] = NoTy \/ is_unknown(c.expr_tys[expr]) THEN unsafe
      ELSE CASE x.k = "Missing" -> unsafe
             [] x.k = "LocalGlobal" ->
                  Follow(c, checked, InfGlobal(x.a), world_bodies.globals[x.a].body, TRUE)
             [] x.k = "Member" /\ c.expr_tys[x.a] = TFile ->
                  IF x.b = 0 THEN unsafe
                  ELSE Follow(c, checked, InfGlobal(x.b), world_bodies.globals[x.b].body,
                              TRUE)
             [] x.k = "Lambda" ->
                  LET lam == world_bodies.lambdas[x.a] IN
                  Follow(c, checked, InfLambda(x.a), lam.body, ~is_type(lam))
             [] OTHER -> go

RECURSIVE SafeLoop(_, _, _, _)
\* the loop of is_safe_to_compile over the checking stack (todo: the lists
\* of the stack, the top one first, each in the order top_list.pop() takes
\* its descendants: from the end of the Vec, children before parents);
\* pushed: the inferrables whose bodies were pushed on the stack so far, in
\* the order of the pushes
SafeLoop(c, todo, checked, pushed) ==
    IF todo = <<>> THEN [safe |-> TRUE, err |-> <<>>, pushed |-> pushed]
    ELSE LET s == SafeStep(c, Head(todo), checked) IN
         IF s.verdict = "go"
         THEN SafeLoop(c, s.push \o Tail(todo), s.checked, pushed \o s.pushed)
         ELSE [safe |-> FALSE, err |-> s.deps, pushed |-> pushed]

\* GlobalInferenceCtx::is_safe_to_compile: [safe, err, pushed]
is_safe_to_compile(c, expr) ==
    SafeLoop(c, AllOrder(expr), {c.currently_inferring}, <<>>)

\* the history keeps, for every call of is_safe_to_compile, the item that
\* was being inferred and the pushes of the call
Checked(c, pushed) ==
    [c EXCEPT !.h.pushes = @ \cup {[item |-> c.currently_inferring, pushed |-> pushed]}]

RECURSIVE EvalValue(_, _, _)
\* the value the evaluator computes for the expression e from the bodies
\* and `self.tys`: <<"Integer", n>>, <<"Type", ty>> (the meta type recorded
\* for a type expression), <<"Lambda", l>>, <<"Void">>, <<"Other">>, or
\* <<"Diverges">> when the evaluation does not end within the fuel
EvalValue(c, e, fuel) ==
    IF fuel = 0 THEN <<"Diverges">>
    ELSE IF e = 0 THEN <<"Void">>
    ELSE LET x == E(e) IN
      CASE x.k \in {"Block", "Paren", "Comptime"} -> EvalValue(c, x.a, fuel)
        [] x.k = "IntLiteral" -> <<"Integer", x.n>>
        [] x.k \in TyExprKinds ->
             IF c.meta_tys[e] # NoTy THEN <<"Type", c.meta_tys[e]>> ELSE <<"Other">>
        [] x.k = "LocalGlobal" -> EvalValue(c, world_bodies.globals[x.a].body, fuel - 1)
        [] x.k = "Lambda" -> <<"Lambda", x.a>>
        [] x.k = "Call" ->
             LET callee == EvalValue(c, x.a, fuel) IN
             IF callee[1] = "Lambda"
             THEN EvalValue(c, world_bodies.lambdas[callee[2]].body, fuel - 1)
             ELSE callee
        [] OTHER -> <<"Other">>

\* the inferrables named among the descendants o: globals referenced,
\* lambdas with a body
NamedIn(o) ==
    LET at(i) == E(o[i][2])
        es == {i \in 1..Len(o) : o[i][1] = "E"}
    IN {InfGlobal(at(i).a) : i \in {j \in es : at(j).k = "LocalGlobal"}}
       \cup {InfGlobal(at(i).b) : i \in {j \in es : at(j).k = "Member" /\ at(j).b # 0}}
       \cup {InfLambda(at(i).a) :
               i \in {j \in es : at(j).k = "Lambda"
                                    /\ ~is_type(world_bodies.lambdas[at(j).a])}}
\* the inferrables a body names
Named0(e) == NamedIn(AllOrder(e))
BodyOf(i) ==
    IF i[1] = "Global" THEN world_bodies.globals[i[2]].body
    ELSE world_bodies.lambdas[i[2]].body
RECURSIVE ReachFrom(_, _)
ReachFrom(frontier, seen) ==
    IF frontier = {} THEN seen
    ELSE ReachFrom(UNION {Named0(BodyOf(i)) : i \in frontier} \ (seen \cup frontier),
                   seen \cup frontier)
\* the globals and value lambdas reachable from the expression e through
\* global references, member references and lambda expressions
Reach(e) == ReachFrom(Named0(e), {})
\* the descendants of e and of the bodies of the inferrables r
OrderWith(e, r) ==
    AllOrder(e)
      \o Concat([k \in 1..Len(r) |->
                    AllOrder(IF r[k] <= NGlobals THEN world_bodies.globals[r[k]].body
                             ELSE world_bodies.lambdas[r[k] - NGlobals].body)], Len(r))
\* the descendants of e and of the bodies reachable from it
ReachOrder(e) ==
    OrderWith(e, SetToSeqAsc({IF i[1] = "Global" THEN i[2] ELSE NGlobals + i[2] :
                                 i \in Reach(e)}))
\* an expression typed Unknown or an Expr::Missing among the descendants o
UnknownIn(c, o) ==
    \E i \in 1..Len(o) :
       /\ o[i][1] = "E"
       /\ \/ E(o[i][2]).k = "Missing"
          \/ c.expr_tys[o[i][2]] = TUnknown
          \/ c.meta_tys[o[i][2]] = TUnknown
HasUnknown(c, e) == UnknownIn(c, ReachOrder(e))
\* a break / continue among the descendants o that has no target inside
EscapesIn(o) ==
    \E i \in 1..Len(o) :
       o[i][1] = "S" /\ S(o[i][2]).k \in {"Break", "Continue"} /\ S(o[i][2]).b = 0
Escapes(e) == EscapesIn(ReachOrder(e))

\* the history notes the calls of is_safe_to_compile ("check"), of the
\* evaluator ("eval") and what const_ty / const_data made of a comptime
\* block that was not evaluated ("ret")
Note(c, ev, via, expr, result, deps) ==
    LET body == E(expr).a IN
    [c EXCEPT !.h.log = Append(@,
        [ev |-> ev, via |-> via, expr |-> expr, result |-> result, deps |-> deps,
         item |-> c.currently_inferring, visit |-> c.visit,
         unready |-> Reach(body) \ c.all_inferred,
         unknown |-> HasUnknown(c, body), escapes |-> Escapes(body)])]

\* (self.eval_comptime)(FQComptime { expr, .. }, self.tys)
eval_comptime(c, expr, via) ==
    LET v == EvalValue(c, E(expr).a, MaxEval)
        c1 == Noted(c, "eval", via, expr, v[1], <<>>)
    IN Res(IF v = <<"Diverges">> THEN [c1 EXCEPT !.hang = TRUE] ELSE c1, v, <<>>)

\* the comptime block is handed to the evaluator without the check
ComptimeDataUnchecked(c, expr) == EvalComptime(c, expr, "const_data")

\* const_data, Expr::Comptime
ComptimeData(c, expr) ==
    LET s == IsSafeToCompile(c, E(expr).a)
        verdict == IF s.err # <<>> THEN "err" ELSE IF s.safe THEN "true" ELSE "false"
        c1 == Checked(Noted(c, "check", "const_data", expr, verdict, s.err), s.pushed)
    IN IF s.err # <<>>
       THEN Res(Noted(c1, "ret", "const_data", expr, "Err", s.err), <<"None">>, s.err)
       ELSE IF s.safe THEN EvalComptime(c1, expr, "const_data")
       ELSE Res(Noted(c1, "ret", "const_data", expr, "None", <<>>), <<"None">>, <<>>)

RECURSIVE const_data(_, _, _)
\* GlobalInferenceCtx::const_data: Res(ctx, <<"None">> or the
\* ComptimeResult, Err)
const_data(c, expr, d) ==
    IF d > MaxDepth THEN Res([c EXCEPT !.overrun = TRUE], <<"None">>, <<>>)
    ELSE IF c.expr_tys[expr] = NoTy THEN Res(Panic(c), <<"None">>, <<>>)
    ELSE LET x == E(expr) IN
      CASE x.k = "IntLiteral" -> Res(c, <<"Integer", x.n>>, <<>>)
        [] x.k = "Comptime" -> ComptimeData(c, expr)
        [] x.k = "Local" ->
             IF L(x.a).value = 0 THEN Res(Panic(c), <<"None">>, <<>>)
             ELSE ConstData(c, L(x.a).value, d + 1)
        [] x.k = "LocalGlobal" -> ConstData(c, world_bodies.globals[x.a].body, d + 1)
        [] x.k = "Member" /\ c.expr_tys[x.a] = TFile ->
             IF x.b = 0 THEN Res(Panic(c), <<"None">>, <<>>)
             ELSE ConstData(c, world_bodies.globals[x.b].body, d + 1)
        [] OTHER -> Res(c, <<"None">>, <<>>)

\* const_ty, Expr::Comptime
ComptimeTy(c, expr) ==
    LET body == E(expr).a
        ty == c.expr_tys[body]
        c1 == SetExprTy(c, expr, ty)
        s == IsSafeToCompile(c1, body)
        verdict == IF s.err # <<>> THEN "err" ELSE IF s.safe THEN "true" ELSE "false"
        c2 == Checked(Noted(c1, "check", "const_ty", expr, verdict, s.err), s.pushed)
        v == EvalComptime(c2, expr, "const_ty")
    IN \* tys[body]: the index panics on a body without a type
       IF ty = NoTy THEN Res(Panic(c), TUnknown, <<>>)
       ELSE IF ty # TType THEN Res(c, TUnknown, <<>>)
       ELSE IF s.err # <<>>
       THEN Res(Noted(c2, "ret", "const_ty", expr, "Err", s.err), NoTy, s.err)
       ELSE IF ~s.safe
       THEN Res(Noted(c2, "ret", "const_ty", expr, "Unknown", <<>>), TUnknown, <<>>)
       ELSE IF v.r[1] = "Type" THEN Res(v.c, v.r[2], <<>>)
       ELSE Res(IF Dead(v.c) THEN v.c ELSE Panic(v.c), TUnknown, <<>>)

\* const_ty, Expr::ArrayDecl { size: Some(size), ty }
SizedArrayTy(c, expr) ==
    LET size == E(expr).a
        sub_ty == c.meta_tys[E(expr).b]
        em == ExpectMatch(c, c.expr_tys[size], USize, size)
        c1 == ReplaceWeakTys(em.c, size, USize, 1).c
        expr_const == get_const(c1, size, c1.signatures, c1.all_inferred)
        cd == ConstData(c1, size, 1)
    IN \* tys[size]: the index panics on a size without a type
       IF c.expr_tys[size] = NoTy THEN Res(Panic(c), TUnknown, <<>>)
       ELSE IF ~em.r THEN Res(em.c, TUnknown, <<>>)
       ELSE IF expr_const = "AssertFailed" THEN Res(Panic(c1), TUnknown, <<>>)
       ELSE IF expr_const = "Diverges" THEN Res(Unbounded(c1, size), TUnknown, <<>>)
       ELSE IF expr_const = "Runtime"
       THEN Res(Push(c1, Diag("ArraySizeNotConst", size, 0)), TUnknown, <<>>)
       ELSE IF expr_const = "Unknown" THEN Res(c1, TUnknown, <<>>)
       ELSE IF cd.err # <<>> THEN Res(cd.c, NoTy, cd.err)
       ELSE IF cd.r[1] = "Integer" THEN Res(cd.c, TArray(FALSE, cd.r[2], sub_ty), <<>>)
       ELSE Res(Push(cd.c, Diag("ArraySizeNotInt", size, 0)), TUnknown, <<>>)

\* whether the build traps on integer overflow (debug) or wraps (release)
OverflowChecks == world_bodies.tag.flag

\* the outcome of the first loop of const_ty over the variants of an enum
Discrims(c, used, manual, err) == [c |-> c, used |-> used, manual |-> manual, err |-> err]

RECURSIVE EnumManual(_, _, _, _, _)
\* const_ty, Expr::EnumDecl: const_data of the discriminant discrim_expr of
\* variant idx
EnumData(cd, expr, idx, used, manual, discrim_expr) ==
    IF cd.err # <<>> THEN Discrims(cd.c, used, manual, cd.err)
    ELSE IF cd.r[1] = "Integer"
    THEN IF cd.r[2] \in used
         THEN EnumManual(Push(cd.c, Diag("DiscriminantUsedAlready", discrim_expr, 0)),
                         expr, idx + 1, used, manual)
         ELSE EnumManual(cd.c, expr, idx + 1, used \cup {cd.r[2]},
                         [manual EXCEPT ![idx] = cd.r[2]])
    ELSE EnumManual(Push(cd.c, Diag("DiscriminantNotInt", discrim_expr, 0)),
                    expr, idx + 1, used, manual)

\* const_ty, Expr::EnumDecl: get_const of the discriminant said expr_const
EnumConst(c, expr_const, expr, idx, used, manual, discrim_expr) ==
    IF expr_const = "AssertFailed" THEN Discrims(Panic(c), used, manual, <<>>)
    ELSE IF expr_const = "Diverges" THEN Discrims(Unbounded(c, discrim_expr), used, manual, <<>>)
    ELSE IF expr_const = "Runtime"
    THEN EnumManual(Push(c, Diag("DiscriminantNotConst", discrim_expr, 0)),
                    expr, idx + 1, used, manual)
    ELSE IF expr_const = "Unknown" THEN EnumManual(c, expr, idx + 1, used, manual)
    ELSE EnumData(ConstData(c, discrim_expr, 1), expr, idx, used, manual, discrim_expr)

\* const_ty, Expr::EnumDecl: after replace_weak_tys(discrim_expr, u8)
EnumReplaced(c, expr, idx, used, manual, discrim_expr) ==
    EnumConst(c, get_const(c, discrim_expr, c.signatures, c.all_inferred),
              expr, idx, used, manual, discrim_expr)

\* const_ty, Expr::EnumDecl: after expect_match(tys[discrim_expr], u8, discrim_expr)
EnumMatched(em, expr, idx, used, manual, discrim_expr) ==
    IF ~em.r THEN EnumManual(em.c, expr, idx + 1, used, manual)
    ELSE EnumReplaced(ReplaceWeakTys(em.c, discrim_expr, U8, 1).c,
                      expr, idx, used, manual, discrim_expr)

\* const_ty, Expr::EnumDecl: the first loop, which fills used_discriminants and
\* manual_discriminants (manual[idx] = <<>> when variant idx has no entry)
EnumManual(c, expr, idx, used, manual) ==
    IF idx > Len(E(expr).vs) \/ Dead(c) THEN Discrims(c, used, manual, <<>>)
    ELSE IF E(expr).vs[idx] = NoName \/ E(expr).ss[idx] = 0
    THEN EnumManual(c, expr, idx + 1, used, manual)
    ELSE EnumMatched(ExpectMatch(c, c.expr_tys[E(expr).ss[idx]], U8, E(expr).ss[idx]),
                     expr, idx, used, manual, E(expr).ss[idx])

RECURSIVE FirstFree(_, _)
\* `while used_discriminants.contains(&discrim) { discrim += 1; }`:
\* <<discrim, whether an addition overflowed>>
FirstFree(discrim, used) ==
    IF discrim \notin used THEN <<discrim, FALSE>>
    ELSE IF discrim = U64Max
    THEN <<FirstFree(NumInc(discrim), used)[1], TRUE>>
    ELSE FirstFree(NumInc(discrim), used)

RECURSIVE EnumVariants(_, _, _, _, _, _, _)
\* const_ty, Expr::EnumDecl: one turn of the second loop; d is
\* <<discriminant, whether an addition overflowed>>
EnumVariant(expr, idx, used, manual, latest_discrim, variant_tys, overflowed, d) ==
    EnumVariants(expr, idx + 1, used, manual,
                 IF NumGe(d[1], latest_discrim) THEN NumInc(d[1]) ELSE latest_discrim,
                 Append(variant_tys, TVariantAt(expr, E(expr).vs[idx], d[1])),
                 overflowed \/ d[2] \/ (NumGe(d[1], latest_discrim) /\ d[1] = U64Max))

\* const_ty, Expr::EnumDecl: the second loop, which gives every variant its
\* discriminant: <<variant_tys, whether an addition overflowed>>
EnumVariants(expr, idx, used, manual, latest_discrim, variant_tys, overflowed) ==
    IF idx > Len(E(expr).vs) THEN <<variant_tys, overflowed>>
    ELSE IF E(expr).vs[idx] = NoName
    THEN EnumVariants(expr, idx + 1, used, manual, latest_discrim, variant_tys, overflowed)
    ELSE EnumVariant(expr, idx, used, manual, latest_discrim, variant_tys, overflowed,
                     IF manual[idx] # <<>> THEN <<manual[idx], FALSE>>
                     ELSE FirstFree(latest_discrim, used))

\* const_ty, Expr::EnumDecl: the Ty::Enum, or the panic of an overflowing
\* addition in a build that checks for it
EnumBuilt(c, expr, vts) ==
    IF vts[2] /\ OverflowChecks THEN Res(Panic(c), TUnknown, <<>>)
    ELSE Res(c, TEnumOf(expr, vts[1]), <<>>)

EnumAssigned(m, expr) ==
    IF m.err # <<>> THEN Res(m.c, NoTy, m.err)
    ELSE IF Dead(m.c) THEN Res(m.c, TUnknown, <<>>)
    ELSE EnumBuilt(m.c, expr, EnumVariants(expr, 1, m.used, m.manual, Num(0), <<>>, FALSE))

\* const_ty, Expr::EnumDecl
EnumTy(c, expr) ==
    EnumAssigned(EnumManual(c, expr, 1, {}, [i \in 1..Len(E(expr).vs) |-> <<>>]), expr)

\* const_ty, the arm of one descendant
ConstTyArm(c, expr) == Invoke(<<"const_ty_arm", c, expr>>)
\* const_ty, the loop over the descendants
ConstTyWalk(c, order, i) == Invoke(<<"const_ty_walk", c, order, i>>)

\* include_local_value of const_ty
include_local_value(c, local) == c.local_tys[local] = TType /\ ~L(local).mutable

RECURSIVE TypeOrder(_, _)
\* bodies.descendants(expr, DescentOpts::Types { include_local_value })
\* reversed: the type expressions below expr, children before parents (the
\* expressions whose meta types the arms of const_ty read)
TypeOrder(c, e) ==
    IF e = 0 THEN <<>>
    ELSE LET x == E(e) IN
      CASE x.k \in {"Ref", "Paren"} -> TypeOrder(c, x.a) \o <<e>>
        [] x.k = "ArrayDecl" -> TypeOrder(c, x.b) \o <<e>>
        [] x.k = "StructDecl" ->
             Concat([i \in 1..Len(x.ss) |-> TypeOrder(c, x.ss[i])], Len(x.ss)) \o <<e>>
        [] x.k = "Lambda" ->
             LET lam == world_bodies.lambdas[x.a] IN
             Concat([i \in 1..Len(lam.params) |-> TypeOrder(c, lam.params[i].ty)],
                    Len(lam.params))
                \o TypeOrder(c, lam.return_ty) \o <<e>>
        [] x.k = "Local" ->
             (IF include_local_value(c, x.a) THEN TypeOrder(c, L(x.a).value) ELSE <<>>)
                \o <<e>>
        [] OTHER -> <<e>>

\* infer_expr called from const_ty and fqn_to_ty
InferExprOf(c, expr) == Invoke(<<"infer_expr", c, expr, c.signatures>>)

\* the loop of const_ty over descendants[i..]: a descendant with a meta
\* type is skipped, the type of any other is recorded in meta_tys; a `?`
\* leaves the loop with the Err
const_ty_walk(c, order, i) ==
    IF Dead(c) THEN Res(c, TUnknown, <<>>)
    ELSE IF i > Len(order) THEN Res(c, NoTy, <<>>)
    ELSE IF c.meta_tys[order[i]] # NoTy THEN ConstTyWalk(c, order, i + 1)
    ELSE LET t == ConstTyArm(c, order[i]) IN
         IF t.err # <<>> THEN Res(t.c, NoTy, t.err)
         ELSE IF Dead(t.c) THEN Res(t.c, TUnknown, <<>>)
         ELSE ConstTyWalk([t.c EXCEPT !.meta_tys[order[i]] = t.r], order, i + 1)

\* a const_ty that computes the type of expr without recording it in
\* meta_tys
ConstTyNoRecord(c, expr) ==
    LET w == ConstTyWalk(c, TypeOrder(c, expr), 1) IN
    IF w.err # <<>> \/ Dead(w.c) THEN w
    ELSE Res([w.c EXCEPT !.meta_tys[expr] = NoTy], w.c.meta_tys[expr], <<>>)

\* GlobalInferenceCtx::const_ty: Res(ctx, Ty, Err); the result is
\* `meta_tys[expr]`
const_ty(c, expr) ==
    IF c.meta_tys[expr] # NoTy THEN Res(c, c.meta_tys[expr], <<>>)
    ELSE LET w == ConstTyWalk(c, TypeOrder(c, expr), 1) IN
         IF w.err # <<>> \/ Dead(w.c) THEN w
         ELSE Res(w.c, w.c.meta_tys[expr], <<>>)

\* the result of one arm of infer_expr: the ctx, the type (NoTy on Err)
\* and the Err (<<>> when Ok)
Ok(c, ty) == [c |-> c, ty |-> ty, err |-> <<>>]
Err(c, deps) == [c |-> c, ty |-> NoTy, err |-> deps]

\* a reference that finds NotYetResolved types the expression Unknown and
\* emits no diagnostic
GlobalRefSilent(c, expr, fqn, sigs) ==
    IF sigs[fqn] = NoTy THEN Err(c, <<InfGlobal(fqn)>>)
    ELSE IF sigs[fqn] = TNotYetResolved THEN Ok(c, TUnknown)
    ELSE Ok(c, sigs[fqn])

\* a reference to a global without a signature is typed Unknown instead
\* of being reported to the scheduler
GlobalRefNoErr(c, expr, fqn, sigs) ==
    IF sigs[fqn] = NoTy THEN Ok(c, TUnknown)
    ELSE IF sigs[fqn] = TNotYetResolved
         THEN Ok(Push(c, Diag("NotYetResolved", expr, fqn)), TUnknown)
         ELSE Ok(c, sigs[fqn])

\* a reference that finds NotYetResolved reports it and keeps the marker
\* as the type of the expression
GlobalRefKeepsMarker(c, expr, fqn, sigs) ==
    IF sigs[fqn] = NoTy THEN Err(c, <<InfGlobal(fqn)>>)
    ELSE IF sigs[fqn] = TNotYetResolved
         THEN Ok(Push(c, Diag("NotYetResolved", expr, fqn)), TNotYetResolved)
         ELSE Ok(c, sigs[fqn])

\* infer_expr, Expr::LocalGlobal and Expr::Member on a File: the signature
\* of the referenced global
GlobalRef(c, expr, fqn, sigs) ==
    IF sigs[fqn] = NoTy THEN Err(c, <<InfGlobal(fqn)>>)
    ELSE IF sigs[fqn] = TNotYetResolved
         THEN Ok(Push(c, Diag("NotYetResolved", expr, fqn)), TUnknown)
         ELSE Ok(c, sigs[fqn])

\* Ty::can_differentiate: a variadic parameter and the parameter after it
\* can be told apart when neither type fits into the other
can_differentiate(ty, last_ty) == ~can_fit_into(ty, last_ty) /\ ~can_fit_into(last_ty, ty)

RECURSIVE LambdaParams(_, _, _, _, _)
\* one turn of the loop over the parameters, ct being the result of
\* `self.const_ty(param.ty)?` and impossible the impossible_to_differentiate
\* of the parameter
LambdaParam(ct, impossible, expr, params, idx, param_tys) ==
    IF ct.err # <<>> \/ Dead(ct.c) THEN Res(ct.c, param_tys, ct.err)
    ELSE LambdaParams(IF impossible
                      THEN Push(ct.c, Diag("ImpossibleToDifferentiateVarArgs", expr, 0))
                      ELSE ct.c,
                      expr, params, idx + 1,
                      Append(param_tys,
                             [ty |-> IF params[idx].varargs THEN TSlice(ct.r) ELSE ct.r,
                              varargs |-> params[idx].varargs,
                              impossible |-> impossible]))

\* `last_ty.can_differentiate(ty)` of a parameter that follows a variadic one
Impossible(ct, params, idx) ==
    /\ ct.err = <<>> /\ ~Dead(ct.c)
    /\ idx > 1
    /\ params[idx - 1].varargs
    /\ ~can_differentiate(ct.r, ct.c.meta_tys[params[idx - 1].ty])

\* the loop step with the result of const_ty at hand
LambdaParamOf(ct, expr, params, idx, param_tys) ==
    LambdaParam(ct, Impossible(ct, params, idx), expr, params, idx, param_tys)

\* infer_expr, Expr::Lambda: `for (idx, param) in params.iter().enumerate()`;
\* the result is Res(ctx, Vec<ParamTy>, Err); `self.const_ty(param.ty)?`
\* leaves the loop at the first Err
LambdaParams(c, expr, params, idx, param_tys) ==
    IF idx > Len(params) THEN Res(c, param_tys, <<>>)
    ELSE LambdaParamOf(ConstTy(c, params[idx].ty), expr, params, idx, param_tys)

\* the Ty::Function of the parameters ps and the return type
LambdaFn(ps, return_ty) ==
    IF ps.err # <<>> \/ Dead(ps.c) THEN Res(ps.c, NoTy, ps.err)
    ELSE Res(ps.c, TFn(ps.r, return_ty), <<>>)

\* the parameters, rt being the result of `self.const_ty(*return_ty)?`
LambdaReturn(rt, expr, params) ==
    IF rt.err # <<>> \/ Dead(rt.c) THEN Res(rt.c, NoTy, rt.err)
    ELSE LambdaFn(LambdaParams(rt.c, expr, params, 1, <<>>), rt.r)

\* the type of a lambda: `self.const_ty(*return_ty)?` (Void without an
\* annotation), then the parameters; Res(ctx, Ty, Err)
LambdaTy(c, expr) ==
    LambdaReturn(IF world_bodies.lambdas[E(expr).a].return_ty # 0
                 THEN ConstTy(c, world_bodies.lambdas[E(expr).a].return_ty)
                 ELSE Res(c, TVoid, <<>>),
                 expr, world_bodies.lambdas[E(expr).a].params)

\* Expr::Lambda without the insertion into to_infer
LambdaRuleNoQueue(c, expr) ==
    LET lt == LambdaTy(c, expr) IN
    IF lt.err # <<>> THEN Err(lt.c, lt.err)
    ELSE IF Dead(lt.c) THEN Ok(lt.c, TUnknown)
    ELSE Ok(lt.c, lt.r)

\* the result of the Lambda arm, lt being the type of the lambda
LambdaResult(lt, expr) ==
    IF lt.err # <<>> THEN Err(lt.c, lt.err)
    ELSE IF Dead(lt.c) THEN Ok(lt.c, TUnknown)
    ELSE IF is_type(world_bodies.lambdas[E(expr).a])
    THEN Ok([lt.c EXCEPT !.meta_tys[expr] = lt.r], TType)
    ELSE Ok([lt.c EXCEPT !.queued = @ \cup {E(expr).a}], lt.r)

\* infer_expr, Expr::Lambda: the function type comes from the annotations,
\* the body is inserted into to_infer
LambdaRule(c, expr) == LambdaResult(LambdaTy(c, expr), expr)

RECURSIVE ArrayMax(_, _, _, _, _)
\* the max_ty / any_error loop of Expr::ArrayLiteral { ty: None }:
\* <<ctx, max_ty (NoTy = None), any_error>>
ArrayMax(c, items, i, max_ty, any_error) ==
    IF i > Len(items) THEN <<c, max_ty, any_error>>
    ELSE LET item_ty == c.expr_tys[items[i]] IN
         IF max_ty = NoTy THEN ArrayMax(c, items, i + 1, item_ty, any_error)
         ELSE IF any_error THEN ArrayMax(c, items, i + 1, max_ty, any_error)
         ELSE LET m == max(max_ty, item_ty) IN
              IF m # <<>> THEN ArrayMax(c, items, i + 1, m, FALSE)
              ELSE ArrayMax(Push(c, Diag("Mismatch", items[i], 0)), items, i + 1, TUnknown, TRUE)

\* an if whose body never reaches its end is treated like any other body:
\* without an else it reports MissingElse and keeps the body's type
IfRuleNoEvalLeaks(c, expr) ==
    LET x == E(expr)
        c1 == ExpectMatch(c, c.expr_tys[x.a], TBool, x.a).c
        body_ty == c1.expr_tys[x.b]
        else_ty == c1.expr_tys[x.c]
        real_ty == max(body_ty, else_ty)
    IN IF x.c # 0
       THEN IF else_ty = TUnknown THEN Ok(c1, else_ty)
            ELSE IF real_ty # <<>>
            THEN Ok(ReplaceWeakTys(ReplaceWeakTys(c1, x.b, real_ty, 1).c, x.c, real_ty, 1).c,
                    real_ty)
            ELSE Ok(Push(c1, Diag("IfMismatch", expr, 0)), TUnknown)
       ELSE Ok(IF ~is_void(body_ty) /\ ~is_unknown(body_ty)
               THEN Push(c1, DiagTy("MissingElse", expr, body_ty)) ELSE c1, body_ty)

\* infer_expr, Expr::If
IfRule(c, expr) ==
    LET x == E(expr)
        c1 == ExpectMatch(c, c.expr_tys[x.a], TBool, x.a).c
        body_ty == c1.expr_tys[x.b]
        else_ty == c1.expr_tys[x.c]
        real_ty == max(body_ty, else_ty)
    IN IF x.c # 0
       THEN IF else_ty = TUnknown THEN Ok(c1, else_ty)
            ELSE IF real_ty # <<>>
            THEN Ok(ReplaceWeakTys(ReplaceWeakTys(c1, x.b, real_ty, 1).c, x.c, real_ty, 1).c,
                    real_ty)
            ELSE Ok(Push(c1, Diag("IfMismatch", expr, 0)), TUnknown)
       ELSE Ok(IF body_ty # TNoEval /\ ~is_void(body_ty) /\ ~is_unknown(body_ty)
               THEN Push(c1, DiagTy("MissingElse", expr, body_ty)) ELSE c1,
               IF body_ty = TNoEval THEN TVoid ELSE body_ty)

\* an Index rule that looks at the type of the source as it is, pointers
\* included
IndexRuleNoStrip(c, expr) ==
    LET x == E(expr)
        source_ty == c.expr_tys[x.a]
        em == ExpectMatch(c, c.expr_tys[x.b], USize, x.b)
        c1 == IF em.r THEN ReplaceWeakTys(em.c, x.b, USize, 1).c ELSE em.c
    IN IF source_ty = TUnknown THEN Ok(c1, TUnknown)
       ELSE IF source_ty = TRawSlice
       THEN Ok(Push(c1, Diag("IndexRaw", expr, 0)), TUnknown)
       ELSE IF IsArray(source_ty)
       THEN Ok(IF E(x.b).k = "IntLiteral" /\ ~NumGt(source_ty[3], E(x.b).n)
               THEN Push(c1, Diag("IndexOutOfBounds", expr, 0)) ELSE c1,
               source_ty[4])
       ELSE IF IsSlice(source_ty) THEN Ok(c1, source_ty[2])
       ELSE Ok(Push(c1, DiagTy("IndexNonArray", expr, source_ty)), TUnknown)

\* infer_expr, Expr::Index
IndexRule(c, expr) ==
    LET x == E(expr)
        source_ty == c.expr_tys[x.a]
        deref_source_ty == StripPointers(source_ty)
        em == ExpectMatch(c, c.expr_tys[x.b], USize, x.b)
        c1 == IF em.r THEN ReplaceWeakTys(em.c, x.b, USize, 1).c ELSE em.c
    IN IF deref_source_ty = TUnknown THEN Ok(c1, TUnknown)
       ELSE IF deref_source_ty = TRawSlice
       THEN Ok(Push(c1, Diag("IndexRaw", expr, 0)), TUnknown)
       ELSE IF IsArray(deref_source_ty)
       THEN Ok(IF E(x.b).k = "IntLiteral" /\ ~NumGt(deref_source_ty[3], E(x.b).n)
               THEN Push(c1, Diag("IndexOutOfBounds", expr, 0)) ELSE c1,
               deref_source_ty[4])
       ELSE IF IsSlice(deref_source_ty) THEN Ok(c1, deref_source_ty[2])
       ELSE Ok(Push(c1, DiagTy("IndexNonArray", expr, source_ty)), TUnknown)

\* infer_expr, Expr::Deref
DerefRule(c, expr) ==
    LET deref_ty == c.expr_tys[E(expr).a] IN
    IF Tag(deref_ty) = "RawPtr" THEN Ok(Push(c, Diag("DerefRaw", expr, 0)), TUnknown)
    ELSE IF IsPointer(deref_ty) THEN Ok(c, deref_ty[3])
    ELSE Ok(IF ~is_unknown(deref_ty) THEN Push(c, DiagTy("DerefNonPointer", expr, deref_ty))
            ELSE c, TUnknown)

\* infer_expr, Expr::Cast
CastRule(c, expr) ==
    LET x == E(expr)
        ct == ConstTy(c, x.b)
        expr_ty == IF x.a # 0 THEN c.expr_tys[x.a] ELSE TVoid
    IN \* Some(expr): the Unknown test comes before const_ty
       IF x.a # 0 /\ expr_ty = TUnknown THEN Ok(c, TUnknown)
       \* `self.const_ty(*ty)?`
       ELSE IF ct.err # <<>> THEN Err(ct.c, ct.err)
       ELSE IF Dead(ct.c) \/ is_unknown(ct.r) THEN Ok(ct.c, TUnknown)
       ELSE Ok(IF x.a # 0
               THEN ReplaceWeakTys(IF ~can_cast_to(expr_ty, ct.r)
                                   THEN Push(ct.c, Diag("Uncastable", expr, 0)) ELSE ct.c,
                                   x.a, ct.r, 1).c
               ELSE IF ~can_cast_to(TVoid, ct.r)
                    THEN Push(ct.c, Diag("Uncastable", expr, 0)) ELSE ct.c,
               ct.r)

RECURSIVE CallArgsVarargsRequired(_, _, _, _, _, _)
\* a call rule that wants an argument for a variadic parameter as for any
\* other parameter
CallArgsVarargsRequired(c, expr, params, pi, args, ai) ==
    IF Dead(c) THEN c
    ELSE IF ai > Len(args)
    THEN IF pi > Len(params) THEN c
         ELSE CallArgsVarargsRequired(
                  IF ~params[pi].impossible /\ params[pi].ty # TUnknown
                  THEN Push(c, DiagTy("MissingArg", expr, params[pi].ty)) ELSE c,
                  expr, params, pi + 1, args, ai)
    ELSE LET arg == args[ai]
             arg_ty == c.expr_tys[arg]
         IN
         IF pi > Len(params)
         THEN CallArgsVarargsRequired(Push(c, DiagTy("ExtraArg", arg, arg_ty)),
                                      expr, params, pi, args, ai + 1)
         ELSE IF params[pi].varargs
         THEN LET actual_sub_ty == params[pi].ty[2] IN
              IF can_fit_into(arg_ty, actual_sub_ty)
              THEN CallArgsVarargsRequired(ReplaceWeakTys(c, arg, actual_sub_ty, 1).c,
                                           expr, params, pi, args, ai + 1)
              ELSE IF pi < Len(params)
              THEN CallArgsVarargsRequired(c, expr, params, pi + 1, args, ai)
              ELSE IF is_unknown(arg_ty) THEN Panic(c)
              ELSE CallArgsVarargsRequired(Push(c, DiagTy("Mismatch", arg, actual_sub_ty)),
                                           expr, params, pi, args, ai + 1)
         ELSE CallArgsVarargsRequired(
                  ReplaceWeakTys(ExpectMatch(c, arg_ty, params[pi].ty, arg).c,
                                 arg, params[pi].ty, 1).c,
                  expr, params, pi + 1, args, ai + 1)

RECURSIVE CallArgs(_, _, _, _, _, _)
\* infer_expr, Expr::Call: the loop over current_param / current_arg
CallArgs(c, expr, params, pi, args, ai) ==
    IF Dead(c) THEN c
    ELSE IF ai > Len(args)
    THEN IF pi > Len(params) THEN c
         ELSE IF params[pi].varargs THEN CallArgs(c, expr, params, pi + 1, args, ai)
         ELSE CallArgs(IF ~params[pi].impossible /\ params[pi].ty # TUnknown
                       THEN Push(c, DiagTy("MissingArg", expr, params[pi].ty)) ELSE c,
                       expr, params, pi + 1, args, ai)
    ELSE LET arg == args[ai]
             arg_ty == c.expr_tys[arg]
         IN
         IF pi > Len(params)
         THEN CallArgs(Push(c, DiagTy("ExtraArg", arg, arg_ty)), expr, params, pi, args, ai + 1)
         ELSE IF params[pi].varargs
         THEN LET actual_sub_ty == params[pi].ty[2] IN
              IF can_fit_into(arg_ty, actual_sub_ty)
              THEN CallArgs(ReplaceWeakTys(c, arg, actual_sub_ty, 1).c,
                            expr, params, pi, args, ai + 1)
              ELSE IF pi < Len(params) THEN CallArgs(c, expr, params, pi + 1, args, ai)
              ELSE IF is_unknown(arg_ty) THEN Panic(c)
              ELSE CallArgs(Push(c, DiagTy("Mismatch", arg, actual_sub_ty)),
                            expr, params, pi, args, ai + 1)
         ELSE CallArgs(ReplaceWeakTys(ExpectMatch(c, arg_ty, params[pi].ty, arg).c,
                                      arg, params[pi].ty, 1).c,
                       expr, params, pi + 1, args, ai + 1)

RECURSIVE VariantMap(_, _, _)
\* the IndexMap of the variants by name: a variant whose name is already in
\* the map takes the place of the earlier one; map holds the variant_tys in
\* the order of the map
VariantMap(variants, i, map) ==
    IF i > Len(variants) THEN map
    ELSE VariantMap(variants, i + 1,
                    IF \E k \in 1..Len(map) : map[k][2] = variants[i][2]
                    THEN [k \in 1..Len(map) |->
                             IF map[k][2] = variants[i][2] THEN variants[i] ELSE map[k]]
                    ELSE Append(map, variants[i]))
\* variants.get_mut(name).variant_ty (NoTy = None)
VariantOf(map, name) ==
    IF \E k \in 1..Len(map) : map[k][2] = name
    THEN map[CHOOSE k \in 1..Len(map) : map[k][2] = name]
    ELSE NoTy

RECURSIVE SwitchArms(_, _, _, _, _, _)
\* infer_expr, Expr::Switch: one arm whose variant exists; c1 is the context
\* after the SwitchAlreadyCoversVariant test, m is max(first, found_arm_ty)
SwitchArm(c1, expr, map, i, covered, first, found_arm_ty, m, arm) ==
    IF first = NoTy THEN SwitchArms(c1, expr, map, i + 1, covered, found_arm_ty)
    ELSE IF first = TUnknown THEN SwitchArms(c1, expr, map, i + 1, covered, first)
    ELSE IF m # <<>> THEN SwitchArms(c1, expr, map, i + 1, covered, m)
    ELSE SwitchArms(Push(c1, Diag("SwitchMismatch", arm, 0)),
                    expr, map, i + 1, covered, TUnknown)

\* infer_expr, Expr::Switch: the loop over the arms; covered holds the names
\* of the variants with included_in_switch, first is first_arm_ty (NoTy =
\* None); the result is <<ctx, covered, first_arm_ty>>
SwitchArms(c, expr, map, i, covered, first) ==
    IF i > Len(E(expr).ss) THEN <<c, covered, first>>
    ELSE IF E(expr).vs[i] = NoName THEN SwitchArms(c, expr, map, i + 1, covered, first)
    ELSE IF VariantOf(map, E(expr).vs[i]) = NoTy
    THEN SwitchArms(Push(c, Diag("NonExistentVariant", E(expr).ss[i], 0)),
                    expr, map, i + 1, covered, first)
    ELSE SwitchArm(IF E(expr).vs[i] \in covered
                   THEN Push(c, DiagTy("SwitchAlreadyCoversVariant", expr,
                                       VariantOf(map, E(expr).vs[i])))
                   ELSE c,
                   expr, map, i, covered \cup {E(expr).vs[i]}, first,
                   c.expr_tys[E(expr).ss[i]], max(first, c.expr_tys[E(expr).ss[i]]),
                   E(expr).ss[i])

RECURSIVE NotCoveredFirstOnly(_, _, _, _, _)
\* a coverage check that stops at the first variant that is not covered
NotCoveredFirstOnly(c, expr, map, i, covered) ==
    IF i > Len(map) THEN c
    ELSE IF map[i][2] \in covered
    THEN NotCoveredFirstOnly(c, expr, map, i + 1, covered)
    ELSE Push(c, DiagTy("SwitchDoesNotCoverVariant", expr, map[i]))

RECURSIVE NotCovered(_, _, _, _, _)
\* `for variant in variants.values()`: one SwitchDoesNotCoverVariant for
\* every entry of the map that is not included_in_switch
NotCovered(c, expr, map, i, covered) ==
    IF i > Len(map) THEN c
    ELSE NotCovered(IF map[i][2] \in covered THEN c
                    ELSE Push(c, DiagTy("SwitchDoesNotCoverVariant", expr, map[i])),
                    expr, map, i + 1, covered)

\* infer_expr, Expr::Switch: the default arm, or the coverage check when there
\* is none; m is max(first_arm_ty, default_ty); the result is <<ctx, first_arm_ty>>
SwitchDefault(c, covered, first, default_ty, m, expr, map) ==
    IF E(expr).c # 0
    THEN IF first = NoTy THEN <<c, default_ty>>
         ELSE IF first = TUnknown THEN <<c, first>>
         ELSE IF m # <<>> THEN <<ReplaceWeakTys(c, E(expr).c, m, 1).c, m>>
         ELSE <<Push(c, Diag("SwitchMismatch", E(expr).c, 0)), TUnknown>>
    ELSE <<NotCovered(c, expr, map, 1, covered), first>>

\* infer_expr, Expr::Switch: what follows the loop over the arms
SwitchAfter(arms, expr, map) ==
    SwitchDefault(arms[1], arms[2], arms[3], arms[1].expr_tys[E(expr).c],
                  max(arms[3], arms[1].expr_tys[E(expr).c]), expr, map)

\* infer_expr, Expr::Switch: the arms are weak-replaced by the final type
SwitchFinish(after, arms) ==
    Ok(IF after[2] # NoTy /\ after[2] # TUnknown
       THEN ReplaceEach(after[1], arms, 1, after[2], 1) ELSE after[1],
       IF after[2] # NoTy THEN after[2] ELSE TVoid)

\* infer_expr, Expr::Switch over the map of the variants of the scrutinee
SwitchOver(c, expr, map) ==
    SwitchFinish(SwitchAfter(SwitchArms(c, expr, map, 1, {}, NoTy), expr, map), E(expr).ss)

\* infer_expr, Expr::Switch
SwitchRule(c, expr) ==
    IF ~IsEnum(c.expr_tys[E(expr).a]) THEN Ok(c, TUnknown)
    ELSE SwitchOver(c, expr, VariantMap(c.expr_tys[E(expr).a][2], 1, <<>>))

\* infer_expr, Expr::Member on a value: the member of a struct, `len` of
\* arrays and slices, `ptr` of slices (behind any number of pointers); the
\* model has no any
MemberRule(c, expr, previous_ty) ==
    LET name == field(E(expr))
        deref == StripPointers(previous_ty)
    IN IF IsStruct(deref)
       THEN IF name \in MemberNames(deref) THEN Ok(c, MemberTyOf(deref, name))
            ELSE Ok(IF ~is_unknown(previous_ty)
                    THEN Push(c, Diag("NonExistentMember", expr, 0)) ELSE c, TUnknown)
       ELSE IF (IsArray(deref) \/ IsSlice(deref) \/ deref = TRawSlice) /\ name = "len"
       THEN Ok(c, USize)
       ELSE IF IsSlice(deref) /\ name = "ptr" THEN Ok(c, TPointer(FALSE, deref[2]))
       ELSE IF deref = TRawSlice /\ name = "ptr" THEN Ok(c, TRawPtr(FALSE))
       ELSE Ok(IF ~is_unknown(previous_ty) THEN Push(c, Diag("NonExistentMember", expr, 0))
               ELSE c, TUnknown)

\* infer_expr, `self.const_ty(expr)?; Ty::Type`
TypeRule(ct) == IF ct.err # <<>> THEN Err(ct.c, ct.err) ELSE Ok(ct.c, TType)

\* ExprMutability::into_diagnostic is Some
into_diagnostic(mutability) == mutability # "Mutable"

\* infer_expr, Expr::Ref { mutable, expr: inner }: a Ref whose inner
\* expression is a type is a pointer type, any other Ref a pointer to the value
RefRule(c, expr, inner_ty) ==
    IF inner_ty = TType THEN TypeRule(ConstTy(c, expr))
    ELSE Ok(IF E(expr).ty[2] /\ into_diagnostic(get_mutability(c, E(expr).a, FALSE, FALSE))
            THEN Push(c, Diag("MutableRefToImmutableData", expr, 0)) ELSE c,
            TPointer(E(expr).ty[2], inner_ty))

\* the IndexMap found_member_tys of a StructLiteral: <<name, value, type>>
\* of the named members, a name written twice keeping its first place and
\* its last value
FoundMembers(c, x) ==
    LET named == SetToSeqAsc({i \in 1..Len(x.vs) :
                                 /\ x.vs[i] # NoName
                                 /\ \A j \in 1..(i - 1) : x.vs[j] # x.vs[i]})
        last_of(i) == CHOOSE j \in i..Len(x.vs) :
                      /\ x.vs[j] = x.vs[i]
                      /\ \A k \in (j + 1)..Len(x.vs) : x.vs[k] # x.vs[i]
    IN [k \in 1..Len(named) |->
          <<x.vs[named[k]], x.ss[last_of(named[k])], c.expr_tys[x.ss[last_of(named[k])]]>>]

RECURSIVE StructFound(_, _, _, _)
\* Expr::StructLiteral { ty: Some(_), .. }: the loop over found_member_tys
StructFound(c, found, i, expected_ty) ==
    IF Dead(c) \/ i > Len(found) THEN c
    ELSE IF found[i][1] \in MemberNames(expected_ty)
    THEN LET expected_member_ty == MemberTyLast(expected_ty, found[i][1])
             em == ExpectMatch(c, found[i][3], expected_member_ty, found[i][2])
         IN StructFound(IF em.r
                        THEN ReplaceWeakTys(em.c, found[i][2], expected_member_ty, 1).c
                        ELSE em.c,
                        found, i + 1, expected_ty)
    ELSE StructFound(Push(c, Diag("NonExistentMember", found[i][2], 0)),
                     found, i + 1, expected_ty)

RECURSIVE StructMissing(_, _, _, _, _)
\* the loop over the expected members that are not Unknown: one
\* StructLiteralMissingMember for every one the literal does not name
StructMissing(c, expr, found, expected_ty, i) ==
    IF i > Len(expected_ty[3]) THEN c
    ELSE LET name == expected_ty[3][i][1]
             first == \A j \in 1..(i - 1) : expected_ty[3][j][1] # name
         IN StructMissing(IF /\ first
                             /\ ~is_unknown(MemberTyLast(expected_ty, name))
                             /\ \A k \in 1..Len(found) : found[k][1] # name
                          THEN Push(c, Diag("StructLiteralMissingMember", expr, 0)) ELSE c,
                          expr, found, expected_ty, i + 1)

\* infer_expr, Expr::StructLiteral { ty: Some(ty_expr), members }
StructLiteralRule(c, expr) ==
    LET x == E(expr)
        ct == ConstTy(c, x.a)
        found == FoundMembers(ct.c, x)
    IN IF ct.err # <<>> THEN Err(ct.c, ct.err)
       ELSE IF Dead(ct.c) THEN Ok(ct.c, TUnknown)
       \* tys[value]: the index panics on a value without a type
       ELSE IF \E k \in 1..Len(found) : found[k][3] = NoTy THEN Ok(Panic(ct.c), TUnknown)
       ELSE IF ~IsStruct(ct.r) THEN Ok(ct.c, TUnknown)
       ELSE Ok(StructMissing(StructFound(ct.c, found, 1, ct.r), expr, found, ct.r, 1), ct.r)

\* infer_expr, Expr::StructLiteral { ty: None, members }
AnonymousStructRule(c, expr) ==
    LET x == E(expr)
        named == SetToSeqAsc({i \in 1..Len(x.vs) : x.vs[i] # NoName})
    IN IF \E k \in 1..Len(named) : c.expr_tys[x.ss[named[k]]] = NoTy
       THEN Ok(Panic(c), TUnknown)
       ELSE Ok(c, TStructOf(TRUE, [k \in 1..Len(named) |->
                                    <<x.vs[named[k]], c.expr_tys[x.ss[named[k]]]>>]))

RECURSIVE ExtraArgs(_, _, _, _)
\* `for arg in args`: one ExtraArg at the directive for every further argument
ExtraArgs(c, expr, args, i) ==
    IF i > Len(args) THEN c
    ELSE ExtraArgs(Push(c, DiagTy("ExtraArg", expr, c.expr_tys[args[i]])), expr, args, i + 1)

\* infer_expr, Expr::Directive { name, args }
DirectiveRule(c, expr) ==
    LET x == E(expr)
        args == x.ss
        enum_ty == c.expr_tys[args[1]]
        variant_ty == c.expr_tys[args[2]]
        ct == ConstTy(c, args[2])
    IN
    IF x.vs[1] # "unwrap" THEN Ok(Push(c, Diag("UnknownDirective", expr, 0)), TUnknown)
    ELSE IF Len(args) = 0
    THEN Ok(Push(Push(c, Diag("MissingArg", expr, 0)), DiagTy("MissingArg", expr, TType)),
            TUnknown)
    ELSE IF enum_ty = NoTy THEN Ok(Panic(c), TUnknown)
    ELSE IF ~IsEnum(enum_ty) THEN Ok(Push(c, DiagTy("Mismatch", expr, enum_ty)), TUnknown)
    ELSE IF Len(args) = 1 THEN Ok(Push(c, DiagTy("MissingArg", expr, TType)), TUnknown)
    ELSE IF variant_ty = NoTy THEN Ok(Panic(c), TUnknown)
    ELSE IF variant_ty # TType THEN Ok(Push(c, DiagTy("Mismatch", expr, variant_ty)), TUnknown)
    ELSE IF ct.err # <<>> THEN Err(ct.c, ct.err)
    ELSE IF Dead(ct.c) THEN Ok(ct.c, TUnknown)
    ELSE IF Tag(ct.r) # "Variant" THEN Ok(Push(ct.c, DiagTy("Mismatch", expr, ct.r)), TUnknown)
    \* `if enum_uid != uid`
    ELSE IF ct.r[4] # enum_ty[3]
    THEN Ok(Push(ct.c, DiagTy("UnwrapVariantMismatchEnum", expr, ct.r)), TUnknown)
    ELSE IF Len(args) > 2 THEN Ok(ExtraArgs(ct.c, expr, args, 3), TUnknown)
    ELSE Ok(ct.c, ct.r)

\* infer_expr, the arm of one expression
infer_rule(c, expr, sigs) ==
    LET x == E(expr)
        ty(e) == c.expr_tys[e]
        previous_ty == c.expr_tys[expr]
    IN
    CASE x.k = "Missing" -> Ok(c, TUnknown)
      [] x.k = "IntLiteral" -> Ok(c, TUInt(0))
      [] x.k \in {"PrimitiveTy", "ArrayDecl", "StructDecl"} -> TypeRule(ConstTy(c, expr))
      [] x.k = "Ref" -> RefRule(c, expr, ty(x.a))
      [] x.k = "StructLiteral" ->
           IF x.a # 0 THEN StructLiteralRule(c, expr) ELSE AnonymousStructRule(c, expr)
      [] x.k = "Directive" -> DirectiveRule(c, expr)
      [] x.k = "Comptime" ->
           LET ct == ConstTy(c, expr) IN
           IF IsPointer(ty(x.a)) \/ IsFunction(ty(x.a))
           THEN Ok(Push(c, Diag("ComptimePointer", expr, 0)), TUnknown)
           ELSE IF ty(x.a) = TType
           THEN IF ct.err # <<>> THEN Err(ct.c, ct.err) ELSE Ok(ct.c, TType)
           ELSE Ok(c, ty(x.a))
      [] x.k = "ArrayLiteral" ->
           LET am == ArrayMax(c, x.ss, 1, NoTy, FALSE)
               c1 == IF am[2] # NoTy /\ ~am[3] THEN ReplaceEach(am[1], x.ss, 1, am[2], 1)
                     ELSE am[1]
               sub_ty == IF am[3] THEN TUnknown ELSE IF am[2] = NoTy THEN TVoid ELSE am[2]
           IN Ok(c1, TArray(TRUE, Num(Len(x.ss)), sub_ty))
      [] x.k = "Binary" ->
           LET lhs_ty == ty(x.a)
               rhs_ty == ty(x.b)
               output_ty == BinaryOutputTy(lhs_ty, rhs_ty)
           IN IF output_ty # <<>>
              THEN LET c1 == IF lhs_ty # TUnknown /\ rhs_ty # TUnknown
                                /\ ~BinaryCanPerform(output_ty[1])
                             THEN Push(c, Diag("BinaryOpMismatch", expr, 0)) ELSE c
                   IN Ok(ReplaceWeakTys(ReplaceWeakTys(c1, x.a, output_ty[1], 1).c,
                                        x.b, output_ty[1], 1).c, output_ty[2])
              ELSE Ok(Push(c, Diag("BinaryOpMismatch", expr, 0)), BinaryDefaultTy)
      [] x.k = "Unary" ->
           IF ~UnaryCanPerform(ty(x.a))
           THEN Ok(Push(c, Diag("UnaryOpMismatch", x.a, 0)), UnaryDefaultTy)
           ELSE LET output == UnaryOutputTy(ty(x.a)) IN
                Ok(ReplaceWeakTys(c, x.a, output, 1).c, output)
      [] x.k = "Paren" -> Ok(c, IF x.a # 0 THEN ty(x.a) ELSE TVoid)
      [] x.k = "Block" ->
           LET no_eval == \E i \in 1..Len(x.ss) :
                             \/ S(x.ss[i]).k \in {"Break", "Continue"}
                             \/ /\ S(x.ss[i]).k = "Expr" /\ ~block_to_scope_id(expr)
                                /\ ty(S(x.ss[i]).a) = TNoEval
           IN IF x.a # 0
              THEN IF previous_ty # NoTy
                   THEN LET m == ExpectBlockMatch(c, x.a, ty(x.a), expr, previous_ty) IN
                        \* block_to_scope_id(expr).unwrap(), then the values of
                        \* the breaks are replaced
                        IF m.r # NoTy
                        THEN Ok(IF block_to_scope_id(expr)
                                THEN ReplaceEach(m.c, BreakValues(expr), 1, m.r, 1)
                                ELSE Panic(m.c), m.r)
                        ELSE Ok(m.c, TUnknown)
                   ELSE Ok(c, ty(x.a))
              ELSE IF no_eval THEN Ok(c, IF previous_ty # NoTy THEN previous_ty ELSE TNoEval)
              ELSE IF previous_ty # NoTy
                   THEN LET m == ExpectBlockMatch(c, expr, TVoid, expr, previous_ty) IN
                        Ok(m.c, IF m.r # NoTy THEN m.r ELSE TUnknown)
                   ELSE Ok(c, TVoid)
      [] x.k = "While" ->
           LET c1 == IF x.a # 0 THEN ExpectMatch(c, ty(x.a), TBool, x.a).c ELSE c
               c2 == ExpectMatch(c1, c1.expr_tys[x.b], TVoid, x.b).c
           IN Ok(c2, IF c2.expr_tys[expr] # NoTy THEN c2.expr_tys[expr] ELSE TVoid)
      [] x.k = "Local" ->
           IF c.local_tys[x.a] = NoTy THEN Ok(Panic(c), TUnknown) ELSE Ok(c, c.local_tys[x.a])
      [] x.k = "LocalGlobal" -> GlobalRef(c, expr, x.a, sigs)
      [] x.k = "EnumDecl" -> TypeRule(ConstTy(c, expr))
      [] x.k = "Call" ->
           IF IsFunction(ty(x.a))
           THEN Ok(CallArgs(c, expr, ty(x.a)[3], 1, x.ss, 1), ty(x.a)[2])
           ELSE Ok(IF ty(x.a) # TUnknown THEN Push(c, Diag("CalledNonFunction", expr, 0)) ELSE c,
                   TUnknown)
      [] x.k = "Lambda" -> LambdaRule(c, expr)
      [] x.k = "Import" -> Ok(c, TFile)
      [] x.k = "BoolLiteral" -> Ok(c, TBool)
      [] x.k = "Param" -> Ok(c, c.param_tys[x.a].ty)
      [] x.k = "If" -> IfRule(c, expr)
      [] x.k = "Index" -> IndexRule(c, expr)
      [] x.k = "Deref" -> DerefRule(c, expr)
      [] x.k = "Cast" -> CastRule(c, expr)
      [] x.k = "Switch" -> SwitchRule(c, expr)
      [] x.k = "Member" ->
           IF ty(x.a) = TFile
           THEN IF x.b # 0 THEN GlobalRef(c, expr, x.b, sigs)
                ELSE Ok(Push(c, Diag("UnknownFqn", expr, 0)), TUnknown)
           ELSE IF ty(x.a) = TType THEN TypeRule(ConstTy(c, expr))
           ELSE MemberRule(c, expr, ty(x.a))

\* GlobalInferenceCtx::report_non_type
report_non_type(c, expr, expr_ty) ==
    IF expr_ty = TType THEN Push(c, Diag("CantUseAsTy", expr, 0))
    ELSE IF ~is_unknown(expr_ty) THEN Push(c, Diag("Mismatch", expr, 0))
    ELSE c

\* GlobalInferenceCtx::fqn_to_ty of a global that exists; total_expr is
\* the expression the diagnostics name
fqn_to_ty(c, fqn, total_expr) ==
    LET ty == c.signatures[fqn] IN
    IF ty = NoTy THEN Res(c, NoTy, <<InfGlobal(fqn)>>)
    ELSE IF ty = TUnknown THEN Res(c, TUnknown, <<>>)
    ELSE IF ty = TNotYetResolved
    THEN Res(Push(c, Diag("NotYetResolved", total_expr, fqn)), TUnknown, <<>>)
    ELSE IF ty # TType
    THEN Res(IF ~is_unknown(ty) THEN Push(c, Diag("Mismatch", total_expr, 0)) ELSE c,
             TUnknown, <<>>)
    ELSE ConstTy(c, world_bodies.globals[fqn].body)

\* const_ty, the `_` arm: `self.infer_expr(expr)?`, report_non_type, Unknown
InferredNonType(c, expr) ==
    LET i == InferExprOf(c, expr) IN
    IF i.err # <<>> THEN Res(i.c, NoTy, i.err)
    ELSE IF Dead(i.c) THEN Res(i.c, TUnknown, <<>>)
    ELSE Res(report_non_type(i.c, expr, i.c.expr_tys[expr]), TUnknown, <<>>)

\* const_ty, Expr::Local: the type is the type the value of an immutable
\* local of type `type` stands for
LocalAsTy(c, expr) ==
    LET l == E(expr).a
        local_ty == c.local_tys[l]
    IN IF local_ty = NoTy THEN Res(Panic(c), TUnknown, <<>>)
       ELSE IF local_ty = TUnknown THEN Res(c, TUnknown, <<>>)
       ELSE IF local_ty # TType THEN Res(report_non_type(c, expr, local_ty), TUnknown, <<>>)
       ELSE IF L(l).mutable THEN Res(Push(c, Diag("LocalTyIsMutable", expr, 0)), TUnknown, <<>>)
       ELSE IF L(l).value # 0
       \* `get_meta_ty(value).unwrap()`
       THEN IF c.meta_tys[L(l).value] = NoTy THEN Res(Panic(c), TUnknown, <<>>)
            ELSE Res(c, c.meta_tys[L(l).value], <<>>)
       ELSE Res(c, TUnknown, <<>>)

\* const_ty, Expr::Member whose previous is a type: the variant of an enum
VariantAsTy(ct, expr) ==
    IF ct.err # <<>> \/ Dead(ct.c) THEN ct
    ELSE IF IsEnum(ct.r)
    THEN LET named == {i \in 1..Len(ct.r[2]) : ct.r[2][i][2] = field(E(expr))} IN
         IF named # {}
         THEN Res(ct.c, ct.r[2][CHOOSE i \in named : \A j \in named : i <= j], <<>>)
         ELSE Res(Push(ct.c, Diag("NonExistentVariant", expr, 0)), TUnknown, <<>>)
    ELSE Res(Push(ct.c, Diag("CantUseAsTy", expr, 0)), TUnknown, <<>>)

\* const_ty, Expr::Member
MemberAsTy(c, expr) ==
    LET x == E(expr)
        p == InferExprOf(c, x.a)
        previous_ty == p.c.expr_tys[x.a]
    IN IF p.err # <<>> THEN Res(p.c, NoTy, p.err)
       ELSE IF Dead(p.c) THEN Res(p.c, TUnknown, <<>>)
       ELSE IF previous_ty = TFile
       THEN IF x.b # 0 THEN fqn_to_ty(p.c, x.b, expr)
            ELSE Res(Push(p.c, Diag("UnknownFqn", x.a, 0)), TUnknown, <<>>)
       ELSE IF previous_ty = TType THEN VariantAsTy(ConstTy(p.c, x.a), expr)
       ELSE InferredNonType(p.c, expr)

RECURSIVE LambdaAsTyParams(_, _, _, _, _)
\* const_ty, Expr::Lambda: the loop over the parameters, which reads their
\* meta types; <<ctx, Vec<ParamTy>>>
LambdaAsTyParams(c, expr, params, idx, param_tys) ==
    IF idx > Len(params) THEN <<c, param_tys>>
    ELSE LET ty == c.meta_tys[params[idx].ty]
             impossible == /\ idx > 1
                           /\ params[idx - 1].varargs
                           /\ ~can_differentiate(ty, c.meta_tys[params[idx - 1].ty])
         IN LambdaAsTyParams(IF impossible
                             THEN Push(c, Diag("ImpossibleToDifferentiateVarArgs", expr, 0))
                             ELSE c,
                             expr, params, idx + 1,
                             Append(param_tys,
                                    [ty |-> IF params[idx].varargs THEN TSlice(ty) ELSE ty,
                                     varargs |-> params[idx].varargs,
                                     impossible |-> impossible]))

\* const_ty, Expr::Lambda: a lambda without a body is a function type
LambdaAsTy(c, expr) ==
    LET lam == world_bodies.lambdas[E(expr).a]
        return_ty == IF lam.return_ty # 0 THEN c.meta_tys[lam.return_ty] ELSE TVoid
        ps == LambdaAsTyParams(c, expr, lam.params, 1, <<>>)
        ty == TFn(ps[2], return_ty)
    IN \* meta_tys[*return_ty], meta_tys[param.ty]: the index panics without an entry
       IF return_ty = NoTy \/ \E i \in 1..Len(lam.params) : c.meta_tys[lam.params[i].ty] = NoTy
       THEN Res(Panic(c), TUnknown, <<>>)
       ELSE IF E(lam.body).k # "Missing"
       THEN Res(report_non_type(ps[1], expr, ty), TUnknown, <<>>)
       ELSE Res(ps[1], ty, <<>>)

\* const_ty, Expr::StructDecl { members }: the named members with their
\* meta types
StructTy(c, expr) ==
    LET x == E(expr)
        named == SetToSeqAsc({i \in 1..Len(x.vs) : x.vs[i] # NoName})
    IN \* meta_tys[ty]: the index panics without an entry
       IF \E k \in 1..Len(named) : c.meta_tys[x.ss[named[k]]] = NoTy
       THEN Res(Panic(c), TUnknown, <<>>)
       ELSE Res(c, TStructOf(FALSE, [k \in 1..Len(named) |->
                                       <<x.vs[named[k]], c.meta_tys[x.ss[named[k]]]>>]), <<>>)

\* the arm of const_ty for the descendant expr
const_ty_arm(c, expr) ==
    LET x == E(expr)
        \* `get_meta_ty(e).unwrap()`, `meta_tys[e]`
        meta(e, ty) == IF c.meta_tys[e] = NoTy THEN Res(Panic(c), TUnknown, <<>>)
                       ELSE Res(c, ty, <<>>)
    IN
    CASE x.k = "Missing" -> Res(c, TUnknown, <<>>)
      [] x.k = "Ref" -> meta(x.a, TPointer(x.ty[2], c.meta_tys[x.a]))
      [] x.k = "Local" -> LocalAsTy(c, expr)
      [] x.k = "LocalGlobal" -> fqn_to_ty(c, x.a, expr)
      [] x.k = "Param" -> Res(Push(c, Diag("ParamNotATy", expr, 0)), TUnknown, <<>>)
      [] x.k = "Member" -> MemberAsTy(c, expr)
      [] x.k = "PrimitiveTy" -> Res(c, x.ty, <<>>)
      [] x.k = "ArrayDecl" ->
           IF c.meta_tys[x.b] = NoTy THEN Res(Panic(c), TUnknown, <<>>)
           ELSE IF x.a # 0 THEN ConstTyArrayDecl(c, expr)
           ELSE Res(c, TSlice(c.meta_tys[x.b]), <<>>)
      [] x.k = "StructDecl" -> StructTy(c, expr)
      [] x.k = "EnumDecl" -> ConstTyEnumDecl(c, expr)
      [] x.k = "Lambda" -> LambdaAsTy(c, expr)
      [] x.k = "Comptime" -> ConstTyComptime(c, expr)
      [] x.k = "Paren" -> IF x.a # 0 THEN meta(x.a, c.meta_tys[x.a]) ELSE Res(c, TVoid, <<>>)
      \* todo!("blocks as types")
      [] x.k = "Block" -> Res(Panic(c), TUnknown, <<>>)
      [] OTHER -> InferredNonType(c, expr)

\* infer_expr, Descendant::Stmt (the statement is not in inferred_stmts)
infer_stmt(c, stmt) ==
    LET x == S(stmt)
        done(cc) == [cc EXCEPT !.inferred_stmts = @ \cup {stmt}]
    IN
    CASE x.k = "Expr" -> done(find_usages(c, {x.a}, stmt))
      [] x.k = "Continue" -> done(c)
      [] x.k = "Break" ->
           IF x.b = 0 THEN done(c)
           ELSE LET referenced_expr == x.b
                    value_ty == IF x.a # 0 THEN c.expr_tys[x.a] ELSE TVoid
                    must_be_void == E(referenced_expr).k = "While" /\ E(referenced_expr).a # 0
                    expected_ty == c.expr_tys[referenced_expr]
                IN \* tys[value]: the index panics on a value without a type
                   IF value_ty = NoTy THEN Panic(c)
                   ELSE done(IF expected_ty # NoTy
                             THEN ExpectBlockMatch(c, x.a, value_ty, referenced_expr,
                                                   expected_ty).c
                             ELSE IF must_be_void /\ ~is_void(value_ty)
                             THEN SetExprTy(Push(c, Diag("Mismatch", x.a, 0)),
                                            referenced_expr, TUnknown)
                             ELSE SetExprTy(c, referenced_expr, value_ty))
      [] x.k = "LocalDef" ->
           LET def_body == L(x.a)
               c1 == IF def_body.ty # 0
                     THEN LET ta == ConstTy(c, def_body.ty)
                              ty_annotation == ta.r
                              c2 == IF def_body.value # 0
                                    THEN LET em == ExpectMatch(ta.c, ta.c.expr_tys[def_body.value],
                                                               ty_annotation, def_body.value)
                                             rw == ReplaceWeakTys(em.c, def_body.value, ty_annotation, 1)
                                         IN IF em.r
                                            THEN IF rw.r THEN SetExprTy(rw.c, def_body.value, ty_annotation)
                                                 ELSE rw.c
                                            ELSE em.c
                                    ELSE IF ~has_default_value(ty_annotation)
                                    THEN Push(ta.c, DiagTy("DeclTypeHasNoDefault",
                                                           def_body.ty, ty_annotation))
                                    ELSE ta.c
                          IN IF ta.err # <<>> THEN [ta.c EXCEPT !.err = ta.err]
                             ELSE SetLocalTy(c2, x.a, ty_annotation)
                     ELSE SetLocalTy(c, x.a, IF def_body.value # 0 THEN c.expr_tys[def_body.value]
                                             ELSE TUnknown)
           IN IF c1.err # <<>> THEN c1
              ELSE done(IF def_body.value # 0 THEN find_usages(c1, {def_body.value}, stmt)
                        ELSE c1)
      [] x.k = "Assign" ->
           IF get_mutability(c, x.a, TRUE, FALSE) # "Mutable"
           THEN \* `continue`: the statement is not added to inferred_stmts
                Push(c, Diag("CannotMutate", x.a, 0))
           ELSE
           LET source_ty == c.expr_tys[x.a]
               value_ty == c.expr_tys[x.b]
               output_ty == BinaryOutputTy(source_ty, value_ty)
               c1 ==
                 IF x.op
                 THEN IF output_ty # <<>>
                      THEN LET c2 == IF source_ty # TUnknown /\ value_ty # TUnknown
                                        /\ ~BinaryCanPerform(output_ty[1])
                                     THEN Push(c, Diag("BinaryOpMismatch", x.a, 0)) ELSE c
                           IN ReplaceWeakTys(ReplaceWeakTys(c2, x.a, output_ty[1], 1).c,
                                             x.b, output_ty[1], 1).c
                      ELSE Push(c, Diag("BinaryOpMismatch", x.a, 0))
                 ELSE IF is_weak_replaceable_by(source_ty, value_ty)
                      THEN ReplaceWeakTys(c, x.a, value_ty, 1).c
                      ELSE LET em == ExpectMatch(c, value_ty, source_ty, x.b) IN
                           IF em.r THEN ReplaceWeakTys(em.c, x.b, value_ty, 1).c ELSE em.c
           IN done(find_usages(c1, {x.a, x.b}, stmt))

\* the loop of infer_expr over the descendants; stops at the first Err
infer_walk(c, order, i, sigs) ==
    IF c.err # <<>> THEN [c |-> [c EXCEPT !.err = <<>>, !.h.cur = 0], err |-> c.err]
    ELSE IF Dead(c) \/ i > Len(order) THEN [c |-> [c EXCEPT !.h.cur = 0], err |-> <<>>]
    ELSE LET next == order[i] IN
      IF next[1] = "E"
      THEN IF c.expr_tys[next[2]] # NoTy /\ ~block_to_scope_id(next[2])
           THEN InferWalk(c, order, i + 1, sigs)
           ELSE LET c0 == [c EXCEPT !.h.cur = next[2],
                                    !.h.rule_runs[next[2]] = @ + 1,
                                    !.h.reruns = IF c.expr_tys[next[2]] # NoTy
                                                 THEN @ \cup {next[2]} ELSE @]
                    r == InferRule(c0, next[2], sigs)
                IN
                IF r.err # <<>> THEN [c |-> [r.c EXCEPT !.h.err_at = next[2]], err |-> r.err]
                ELSE IF Dead(r.c) THEN [c |-> r.c, err |-> r.err]
                ELSE InferWalk(SetExprTy(r.c, next[2], r.ty), order, i + 1, sigs)
      ELSE IF next[2] \in c.inferred_stmts
           THEN InferWalk(c, order, i + 1, sigs)
           ELSE LET st == InferStmt([c EXCEPT !.h.cur = 0], next[2]) IN
                \* the history notes a statement that stopped the walk as -stmt
                InferWalk(IF st.err # <<>> THEN [st EXCEPT !.h.err_at = 0 - next[2]] ELSE st,
                          order, i + 1, sigs)

\* GlobalInferenceCtx::infer_expr
infer_expr(c, expr, sigs) ==
    IF c.expr_tys[expr] # NoTy /\ ~block_to_scope_id(expr) THEN [c |-> c, err |-> <<>>]
    ELSE InferWalk(c, ExprOrder(expr), 1, sigs)

RECURSIVE ReinferAllUsages(_, _, _)
\* `for (_, usages) in self.local_usages.clone() { self.reinfer_usages(usages) }`
ReinferAllUsages(c, snapshot, l) ==
    IF l > NLocals THEN c
    ELSE ReinferAllUsages(ReinferUsages(c, HashIter(l, snapshot[l]), 1, 1), snapshot, l + 1)

\* GlobalInferenceCtx::finish_body; expected_ty = NoTy stands for None
finish_body(c, body, expected_ty, global, sigs, inferred) ==
    LET i == InferExpr(c, body, sigs) IN
    IF i.err # <<>> \/ Dead(i.c) THEN [c |-> i.c, ty |-> NoTy, err |-> i.err]
    ELSE
    LET c1 == ReinferAllUsages(i.c, i.c.local_usages, 1)
        a == ReinferExpr(c1, body, 1)
        r32 == ReplaceWeakTys(a.c, body, I32, 1)
        r64 == ReplaceWeakTys(r32.c, body, F64, 1)
        t == IF expected_ty # NoTy
             THEN Ok(ReplaceWeakTys(ExpectMatch(a.c, a.r, expected_ty, body).c,
                                    body, expected_ty, 1).c, expected_ty)
             ELSE IF global /\ r32.r THEN Ok(r32.c, I32)
             ELSE IF global /\ r64.r THEN Ok(r64.c, F64)
             ELSE IF global THEN Ok(r64.c, a.r)
             ELSE Ok(a.c, a.r)
        k == IF global /\ ~Dead(t.c) THEN get_const(t.c, body, sigs, inferred) ELSE "Const"
    IN IF k = "Runtime" THEN Ok(Push(t.c, Diag("GlobalNotConst", body, 0)), t.ty)
       ELSE IF k = "AssertFailed" THEN Ok(Panic(t.c), t.ty)
       ELSE IF k = "Diverges" THEN Ok(Unbounded(t.c, body), t.ty)
       ELSE t

\* the drive of a global: const_ty of its type annotation, then finish_body
\* of its value
global_body(c, g, sigs, inferred) ==
    LET gl == world_bodies.globals[g]
        ta == IF gl.ty # 0 THEN ConstTy(c, gl.ty) ELSE Res(c, NoTy, <<>>)
    IN IF ta.err # <<>> THEN [c |-> ta.c, ty |-> NoTy, err |-> ta.err]
       ELSE FinishBody(ta.c, gl.body, ta.r, TRUE, sigs, inferred)

\* replace_weak_tys(e, ty) once more: <<ctx after the first call, ctx after the second>>
replace_again(once, e, ty) == <<once, ReplaceWeakTys(once, e, ty, 1).c>>

\* replace_weak_tys(e, ty) called twice in a row
replace_twice(c, e, ty) == replace_again(ReplaceWeakTys(c, e, ty, 1).c, e, ty)

\* a call of one of the methods
Invoke(q) ==
    CASE q[1] = "replace_weak_tys" -> replace_weak_tys(q[2], q[3], q[4], q[5])
      [] q[1] = "replace_each" -> replace_each(q[2], q[3], q[4], q[5], q[6])
      [] q[1] = "replace_members" -> replace_members(q[2], q[3], q[4], q[5], q[6])
      [] q[1] = "replace_weak_tys_local" -> replace_weak_tys_local(q[2], q[3], q[4], q[5])
      [] q[1] = "reinfer_usages" -> reinfer_usages(q[2], q[3], q[4], q[5])
      [] q[1] = "reinfer_walk" -> reinfer_walk(q[2], q[3], q[4], q[5])
      [] q[1] = "reinfer_expr" -> reinfer_expr(q[2], q[3], q[4])
      [] q[1] = "infer_rule" -> infer_rule(q[2], q[3], q[4])
      [] q[1] = "infer_stmt" -> infer_stmt(q[2], q[3])
      [] q[1] = "infer_walk" -> infer_walk(q[2], q[3], q[4], q[5])
      [] q[1] = "finish_body" -> finish_body(q[2], q[3], q[4], q[5], q[6], q[7])
      [] q[1] = "const_ty" -> const_ty(q[2], q[3])
      [] q[1] = "const_ty_arm" -> const_ty_arm(q[2], q[3])
      [] q[1] = "const_ty_walk" -> const_ty_walk(q[2], q[3], q[4])
      [] q[1] = "infer_expr" -> infer_expr(q[2], q[3], q[4])
      [] q[1] = "expect_match" -> expect_match(q[2], q[3], q[4], q[5])
      [] q[1] = "push" -> push(q[2], q[3])
      [] q[1] = "const_ty_comptime" -> ComptimeTy(q[2], q[3])
      [] q[1] = "const_ty_array_decl" -> SizedArrayTy(q[2], q[3])
      [] q[1] = "const_ty_enum_decl" -> EnumTy(q[2], q[3])
      [] q[1] = "const_data" -> const_data(q[2], q[3], q[4])
      [] q[1] = "is_safe_to_compile" -> is_safe_to_compile(q[2], q[3])
      [] q[1] = "eval_comptime" -> eval_comptime(q[2], q[3], q[4])
      [] q[1] = "note" -> Note(q[2], q[3], q[4], q[5], q[6], q[7])
      [] q[1] = "global_body" -> global_body(q[2], q[3], q[4], q[5])
      [] q[1] = "replace_twice" -> replace_twice(q[2], q[3], q[4])

(***************************************************************************)
(* The worlds the runs start from.                                         *)
(***************************************************************************)
RECURSIVE Expand(_, _)
\* the lowered expressions, each place of a type written out as the type
\* expression the parser yields for it: `^mut T` is a Ref over the expression
\* of T, `[]T` and `[n]T` an ArrayDecl over it, `enum { A, B }` an EnumDecl
\* without discriminants, a missing type Expr::Missing, any other type a
\* PrimitiveTy.  The new expressions take the indices after the last one.
Expand(exprs, i) ==
    IF i > Len(exprs) THEN exprs
    ELSE LET x == exprs[i]
             n == Len(exprs)
             t == x.ty
             put(node, more) == Expand([exprs EXCEPT ![i] = node] \o more, i + 1)
         IN CASE x.k = "TyOf" /\ Tag(t) = "Pointer" ->
                    put([Node("Ref", n + 1, 0) EXCEPT !.ty = <<"Pointer", t[2]>>],
                        <<TyExpr(t[3])>>)
              [] x.k = "TyOf" /\ Tag(t) = "Slice" ->
                    put(ArrayDecl(0, n + 1), <<TyExpr(t[2])>>)
              [] x.k = "TyOf" /\ Tag(t) = "Array" ->
                    put(ArrayDecl(n + 1, n + 2), <<IntLiteral(t[3]), TyExpr(t[4])>>)
              [] x.k = "TyOf" /\ Tag(t) = "Enum" ->
                    put(EnumDecl([j \in 1..Len(t[2]) |-> t[2][j][2]],
                                 [j \in 1..Len(t[2]) |-> 0]), <<>>)
              [] x.k = "TyOf" /\ t = TUnknown -> put(Node("Missing", 0, 0), <<>>)
              [] x.k = "TyOf" -> put(PrimitiveTy(t), <<>>)
              [] x.k = "ArrayOf" -> put(ArrayDecl(x.a, n + 1), <<TyExpr(t)>>)
              [] OTHER -> Expand(exprs, i + 1)

Bodies(exprs, stmts, locals, lambdas, global_bodies, tag) ==
    [exprs |-> Expand(exprs, 1), stmts |-> stmts, locals |-> locals,
     lambdas |-> lambdas, globals |-> global_bodies, tag |-> tag,
     lib |-> LibTolerant]

\* main :: () -> T { x := n; y : T = x; y }
WeakPropagation(T, n) ==
    Bodies(<<IntLiteral(n), PrimitiveTy(T), Local(1), Local(2), Block(<<1, 2>>, 4),
             PrimitiveTy(T), Lambda(1)>>,
           <<SLocalDef(1), SLocalDef(2)>>,
           <<LocalDef(0, 1), LocalDef(2, 3)>>,
           <<LambdaBody(6, 5)>>, <<Global(7)>>,
           [name |-> "WeakPropagation", x |-> 1, T |-> T, n |-> n])

\* main :: () { x := n; x = x + 1; y : T = x; }
SelfAssign(T, n) ==
    Bodies(<<IntLiteral(n), Local(1), Local(1), IntLiteral(Num(1)), Binary(3, 4),
             PrimitiveTy(T), Local(1), Block(<<1, 2, 3>>, 0), Lambda(1)>>,
           <<SLocalDef(1), SAssign(2, 5, FALSE), SLocalDef(2)>>,
           <<LocalDef(0, 1), LocalDef(6, 7)>>,
           <<LambdaBody(0, 8)>>, <<Global(9)>>,
           [name |-> "SelfAssign", x |-> 1, T |-> T, n |-> n])

\* main :: () { x := n; x += x; y : T = x; }
SelfQuickAssign(T, n) ==
    Bodies(<<IntLiteral(n), Local(1), Local(1), PrimitiveTy(T), Local(1),
             Block(<<1, 2, 3>>, 0), Lambda(1)>>,
           <<SLocalDef(1), SAssign(2, 3, TRUE), SLocalDef(2)>>,
           <<LocalDef(0, 1), LocalDef(4, 5)>>,
           <<LambdaBody(0, 6)>>, <<Global(7)>>,
           [name |-> "SelfQuickAssign", x |-> 1, T |-> T, n |-> n])

\* main :: () { x := n; y := x; x = y; y = x; z : T = x; }
MutualLocals(T, n) ==
    Bodies(<<IntLiteral(n), Local(1), Local(1), Local(2), Local(2), Local(1),
             PrimitiveTy(T), Local(1), Block(<<1, 2, 3, 4, 5>>, 0), Lambda(1)>>,
           <<SLocalDef(1), SLocalDef(2), SAssign(3, 4, FALSE), SAssign(5, 6, FALSE),
             SLocalDef(3)>>,
           <<LocalDef(0, 1), LocalDef(0, 2), LocalDef(7, 8)>>,
           <<LambdaBody(0, 9)>>, <<Global(10)>>,
           [name |-> "MutualLocals", x |-> 1, T |-> T, n |-> n])

\* main :: () { x := n; z := -x; x = 3; x; }
SignSwitch(n) ==
    Bodies(<<IntLiteral(n), Local(1), Unary(2), Local(1), IntLiteral(Num(3)), Local(1),
             Block(<<1, 2, 3, 4>>, 0), Lambda(1)>>,
           <<SLocalDef(1), SLocalDef(2), SAssign(4, 5, FALSE), SExpr(6)>>,
           <<LocalDef(0, 1), LocalDef(0, 3)>>,
           <<LambdaBody(0, 7)>>, <<Global(8)>>,
           [name |-> "SignSwitch", x |-> 0, T |-> TVoid, n |-> n])

\* main :: () { x := .[n, 1]; y : A = x; }   with A = []T or [2]T
ArrayToSlice(A, n) ==
    Bodies(<<IntLiteral(n), IntLiteral(Num(1)), ArrayLiteral(<<1, 2>>), TyExpr(A),
             Local(1), Block(<<1, 2>>, 0), Lambda(1)>>,
           <<SLocalDef(1), SLocalDef(2)>>,
           <<LocalDef(0, 3), LocalDef(4, 5)>>,
           <<LambdaBody(0, 6)>>, <<Global(7)>>,
           [name |-> "ArrayToSlice", x |-> 0, T |-> A, n |-> n])

\* a :: b; b :: a;
Cycle2 ==
    Bodies(<<LocalGlobal(2), LocalGlobal(1)>>, <<>>, <<>>, <<>>,
           <<Global(1), Global(2)>>, [name |-> "Cycle2", x |-> 0, T |-> TVoid, n |-> Num(0)])

\* a :: a;
Cycle1 ==
    Bodies(<<LocalGlobal(1)>>, <<>>, <<>>, <<>>,
           <<Global(1)>>, [name |-> "Cycle1", x |-> 0, T |-> TVoid, n |-> Num(0)])

\* a :: b; b :: c; c :: n;
Chain(n) ==
    Bodies(<<LocalGlobal(2), LocalGlobal(3), IntLiteral(n)>>, <<>>, <<>>, <<>>,
           <<Global(1), Global(2), Global(3)>>,
           [name |-> "Chain", x |-> 0, T |-> TVoid, n |-> n])

\* a :: b + c; b :: a; c :: a;
CycleFan ==
    Bodies(<<LocalGlobal(2), LocalGlobal(3), Binary(1, 2), LocalGlobal(1), LocalGlobal(1)>>,
           <<>>, <<>>, <<>>,
           <<Global(3), Global(4), Global(5)>>,
           [name |-> "CycleFan", x |-> 0, T |-> TVoid, n |-> Num(0)])

\* a :: b; b :: a; c :: a;
CycleAndUser ==
    Bodies(<<LocalGlobal(2), LocalGlobal(1), LocalGlobal(1)>>, <<>>, <<>>, <<>>,
           <<Global(1), Global(2), Global(3)>>,
           [name |-> "CycleAndUser", x |-> 0, T |-> TVoid, n |-> Num(0)])

\* f :: () { f(); };
SelfRecursion ==
    Bodies(<<LocalGlobal(1), Call(1), Block(<<1>>, 0), Lambda(1)>>,
           <<SExpr(2)>>, <<>>, <<LambdaBody(0, 3)>>, <<Global(4)>>,
           [name |-> "SelfRecursion", x |-> 0, T |-> TVoid, n |-> Num(0)])

\* f :: () { g(); }; g :: () { f(); };
MutualRecursion ==
    Bodies(<<LocalGlobal(2), Call(1), Block(<<1>>, 0), Lambda(1),
             LocalGlobal(1), Call(5), Block(<<2>>, 0), Lambda(2)>>,
           <<SExpr(2), SExpr(6)>>, <<>>,
           <<LambdaBody(0, 3), LambdaBody(0, 7)>>, <<Global(4), Global(8)>>,
           [name |-> "MutualRecursion", x |-> 0, T |-> TVoid, n |-> Num(0)])

\* f :: () { while n {}; x := g; }; g :: 5;
WhileThenGlobal(n) ==
    Bodies(<<IntLiteral(n), Block(<<>>, 0), While(1, 2), LocalGlobal(2),
             Block(<<1, 2>>, 0), Lambda(1), IntLiteral(Num(5))>>,
           <<SExpr(3), SLocalDef(1)>>, <<LocalDef(0, 4)>>,
           <<LambdaBody(0, 5)>>, <<Global(6), Global(7)>>,
           [name |-> "WhileThenGlobal", x |-> 0, T |-> TVoid, n |-> n])

\* f :: () { a :: 1; a = 2; x := g; }; g :: 5;   (a := 1 when mutable)
AssignThenGlobal(mutable) ==
    Bodies(<<IntLiteral(Num(1)), Local(1), IntLiteral(Num(2)), LocalGlobal(2),
             Block(<<1, 2, 3>>, 0), Lambda(1), IntLiteral(Num(5))>>,
           <<SLocalDef(1), SAssign(2, 3, FALSE), SLocalDef(2)>>,
           <<IF mutable THEN LocalDef(0, 1) ELSE ImmutableDef(0, 1), LocalDef(0, 4)>>,
           <<LambdaBody(0, 5)>>, <<Global(6), Global(7)>>,
           [name |-> "AssignThenGlobal", x |-> 0, T |-> TVoid, n |-> Num(0)])

\* g :: n;
GlobalLiteral(n) ==
    Bodies(<<IntLiteral(n)>>, <<>>, <<>>, <<>>, <<Global(1)>>,
           [name |-> "GlobalLiteral", x |-> 0, T |-> TVoid, n |-> n])
\* literals on both sides of i32::MAX, of u32::MAX, and u64::MAX
GlobalLits == {Num(5), I32Max, NumInc(I32Max), U32Max, NumInc(U32Max), U64Max}

\* a :: imp.b; b :: n;   (imp is the import of the file of b)
MemberRef(n) ==
    Bodies(<<Import, Member(1, 2), IntLiteral(n)>>, <<>>, <<>>, <<>>,
           <<Global(2), Global(3)>>,
           [name |-> "MemberRef", x |-> 0, T |-> TVoid, n |-> n])

\* a :: imp.b; b :: imp.a;
MemberCycle ==
    Bodies(<<Import, Member(1, 2), Import, Member(3, 1)>>, <<>>, <<>>, <<>>,
           <<Global(2), Global(4)>>,
           [name |-> "MemberCycle", x |-> 0, T |-> TVoid, n |-> Num(0)])

\* main :: () { x : u64 = 1; y : i64 = 2; w := x + y; q : T = w; }
MixedSigns(T) ==
    Bodies(<<PrimitiveTy(U64), IntLiteral(Num(1)), PrimitiveTy(I64), IntLiteral(Num(2)),
             Local(1), Local(2), Binary(5, 6), PrimitiveTy(T), Local(3),
             Block(<<1, 2, 3, 4>>, 0), Lambda(1)>>,
           <<SLocalDef(1), SLocalDef(2), SLocalDef(3), SLocalDef(4)>>,
           <<LocalDef(1, 2), LocalDef(3, 4), LocalDef(0, 7), LocalDef(8, 9)>>,
           <<LambdaBody(0, 10)>>, <<Global(11)>>,
           [name |-> "MixedSigns", x |-> 0, T |-> T, n |-> Num(0)])

Named(name) == [name |-> name, x |-> 0, T |-> TVoid, n |-> Num(0), shape |-> "",
                flag |-> FALSE]

\* f :: (b : bool) { if b { tail }; }
IfTail(tail) ==
    Bodies(<<PrimitiveTy(TBool), ParamRef(1), tail, Block(<<>>, 3), If(2, 4, 0),
             Block(<<1>>, 0), Lambda(1)>>,
           <<SExpr(5)>>, <<>>,
           <<LambdaWith(<<Param(1, FALSE)>>, 0, 6)>>, <<Global(7)>>,
           [Named("IfTail") EXCEPT !.shape = tail.k])

\* f :: (b : bool) { if b { true; }; }   and   ... { if b { true; continue; }; }
IfStmts(continues) ==
    Bodies(<<PrimitiveTy(TBool), ParamRef(1), BoolLiteral,
             Block(IF continues THEN <<2, 3>> ELSE <<2>>, 0), If(2, 4, 0),
             Block(<<1>>, 0), Lambda(1)>>,
           IF continues THEN <<SExpr(5), SExpr(3), SContinue(0)>> ELSE <<SExpr(5), SExpr(3)>>,
           <<>>,
           <<LambdaWith(<<Param(1, FALSE)>>, 0, 6)>>, <<Global(7)>>,
           [Named("IfStmts") EXCEPT !.shape = continues])

\* f :: (b : bool) { x := n; if b { x }; y : T = x; }
IfLocal(T, n) ==
    Bodies(<<PrimitiveTy(TBool), IntLiteral(n), ParamRef(1), Local(1), Block(<<>>, 4),
             If(3, 5, 0), PrimitiveTy(T), Local(1), Block(<<1, 2, 3>>, 0), Lambda(1)>>,
           <<SLocalDef(1), SExpr(6), SLocalDef(2)>>,
           <<LocalDef(0, 2), LocalDef(7, 8)>>,
           <<LambdaWith(<<Param(1, FALSE)>>, 0, 9)>>, <<Global(10)>>,
           [Named("IfLocal") EXCEPT !.T = T, !.n = n])

\* f :: (a : SRC) { a[n]; }
IndexParam(SRC, n) ==
    Bodies(<<TyExpr(SRC), ParamRef(1), IntLiteral(n), Index(2, 3), Block(<<1>>, 0),
             Lambda(1)>>,
           <<SExpr(4)>>, <<>>,
           <<LambdaWith(<<Param(1, FALSE)>>, 0, 5)>>, <<Global(6)>>,
           [Named("IndexParam") EXCEPT !.T = SRC, !.n = n])

Array3 == TArray(FALSE, Num(3), I32)
IndexSources ==
    {Array3, TSlice(I32), TRawSlice, TPointer(FALSE, Array3),
     TPointer(TRUE, TPointer(FALSE, TSlice(I32))), TPointer(FALSE, TRawSlice),
     I32, TPointer(FALSE, I32), TBool, TUnknown}

\* f :: (p : ^M i32) { p^ = 5; }
DerefParam(M) ==
    Bodies(<<TyExpr(TPointer(M, I32)), ParamRef(1), Deref(2), IntLiteral(Num(5)),
             Block(<<1>>, 0), Lambda(1)>>,
           <<SAssign(3, 4, FALSE)>>, <<>>,
           <<LambdaWith(<<Param(1, FALSE)>>, 0, 5)>>, <<Global(6)>>,
           [Named("DerefParam") EXCEPT !.shape = M])

\* f :: () { q : ^M i32; q^ = 5; }
DerefLocalNoValue(M) ==
    Bodies(<<TyExpr(TPointer(M, I32)), Local(1), Deref(2), IntLiteral(Num(5)),
             Block(<<1, 2>>, 0), Lambda(1)>>,
           <<SLocalDef(1), SAssign(3, 4, FALSE)>>, <<LocalDef(1, 0)>>,
           <<LambdaBody(0, 5)>>, <<Global(6)>>,
           [Named("DerefLocalNoValue") EXCEPT !.shape = M])

\* f :: (p : ^M i32) { q := p; q^ = 5; }
DerefLocalValue(M) ==
    Bodies(<<TyExpr(TPointer(M, I32)), ParamRef(1), Local(1), Deref(3), IntLiteral(Num(5)),
             Block(<<1, 2>>, 0), Lambda(1)>>,
           <<SLocalDef(1), SAssign(4, 5, FALSE)>>, <<LocalDef(0, 2)>>,
           <<LambdaWith(<<Param(1, FALSE)>>, 0, 6)>>, <<Global(7)>>,
           [Named("DerefLocalValue") EXCEPT !.shape = M])

\* g :: (p : ^M i32) -> ^M i32 { p };  f :: (p : ^M i32) { g(p)^ = 5; }
DerefCall(M) ==
    Bodies(<<TyExpr(TPointer(M, I32)), TyExpr(TPointer(M, I32)), ParamRef(1), Block(<<>>, 3),
             Lambda(1),
             TyExpr(TPointer(M, I32)), LocalGlobal(1), ParamRef(1), CallWith(7, <<8>>),
             Deref(9), IntLiteral(Num(5)), Block(<<1>>, 0), Lambda(2)>>,
           <<SAssign(10, 11, FALSE)>>, <<>>,
           <<LambdaWith(<<Param(1, FALSE)>>, 2, 4), LambdaWith(<<Param(6, FALSE)>>, 0, 12)>>,
           <<Global(5), Global(13)>>,
           [Named("DerefCall") EXCEPT !.shape = M])

\* f :: (p : ^mut i32) { (^M i32).(p)^ = 5; }
DerefCast(M) ==
    Bodies(<<TyExpr(TPointer(TRUE, I32)), ParamRef(1), TyExpr(TPointer(M, I32)), Cast(2, 3),
             Deref(4), IntLiteral(Num(5)), Block(<<1>>, 0), Lambda(1)>>,
           <<SAssign(5, 6, FALSE)>>, <<>>,
           <<LambdaWith(<<Param(1, FALSE)>>, 0, 7)>>, <<Global(8)>>,
           [Named("DerefCast") EXCEPT !.shape = M])

\* g :: (a : i32, b : bool, rest : ...i32) -> bool { true };
\* f :: () { g(1, true, 2, 3); }
\* with the first p of a, b, with or without rest, and the first n of the
\* arguments
CallWorld(p, varargs, n) ==
    LET np == p + (IF varargs THEN 1 ELSE 0)
        param_exprs == [i \in 1..np |-> IF i = 2 /\ p = 2 THEN TyExpr(TBool) ELSE TyExpr(I32)]
        params == [i \in 1..np |-> Param(i, i > p)]
        arg_exprs == [j \in 1..n |-> IF j = 2 THEN BoolLiteral ELSE IntLiteral(Num(j))]
    IN Bodies(param_exprs
                \o <<TyExpr(TBool), BoolLiteral, Block(<<>>, np + 2), Lambda(1),
                     LocalGlobal(1)>>
                \o arg_exprs
                \o <<CallWith(np + 5, [j \in 1..n |-> np + 5 + j]), Block(<<1>>, 0),
                     Lambda(2)>>,
              <<SExpr(np + 6 + n)>>, <<>>,
              <<LambdaWith(params, np + 1, np + 3), LambdaBody(0, np + 7 + n)>>,
              <<Global(np + 4), Global(np + 8 + n)>>,
              [Named("CallWorld") EXCEPT !.shape = <<p, varargs>>, !.n = Num(n)])
MaxParams == 2
MaxArgs == 4

\* g :: (a : i32) -> bool { true };  f :: () { <parent>; }
\* where one direct sub-expression of <parent> is Expr::Missing; the
\* expressions of <parent> start at index 6 and <parent> is the last one
MissingShapes ==
    [BinaryLhs |-> <<Missing, IntLiteral(Num(5)), Binary(6, 7)>>,
     BinaryRhs |-> <<IntLiteral(Num(5)), Missing, Binary(6, 7)>>,
     Unary |-> <<Missing, Unary(6)>>,
     Paren |-> <<Missing, Paren(6)>>,
     IfCond |-> <<Missing, IntLiteral(Num(5)), BoolLiteral, If(6, 7, 8)>>,
     IfBody |-> <<BoolLiteral, Missing, IntLiteral(Num(5)), If(6, 7, 8)>>,
     IfElse |-> <<BoolLiteral, IntLiteral(Num(5)), Missing, If(6, 7, 8)>>,
     IfBodyNoElse |-> <<BoolLiteral, Missing, If(6, 7, 0)>>,
     IndexSource |-> <<Missing, IntLiteral(Num(1)), Index(6, 7)>>,
     Deref |-> <<Missing, Deref(6)>>,
     Callee |-> <<Missing, IntLiteral(Num(5)), CallWith(6, <<7>>)>>,
     Arg |-> <<LocalGlobal(1), Missing, CallWith(6, <<7>>)>>,
     SurplusArg |-> <<LocalGlobal(1), IntLiteral(Num(5)), Missing, CallWith(6, <<7, 8>>)>>,
     ArgAndMissingArg |-> <<Missing, Index(6, 6), CallWith(7, <<>>)>>,
     WhileCond |-> <<Missing, Block(<<>>, 0), While(6, 7)>>,
     WhileBody |-> <<BoolLiteral, Missing, While(6, 7)>>,
     Cast |-> <<Missing, TyExpr(I32), Cast(6, 7)>>,
     Member |-> <<Missing, Member(6, 0)>>,
     Switch |-> <<Missing, Switch(6, <<>>, <<>>, 0)>>,
     ArrayItem |-> <<Missing, IntLiteral(Num(5)), ArrayLiteral(<<6, 7>>)>>,
     Tail |-> <<Missing, Block(<<>>, 6)>>]
MissingIn(shape) ==
    LET sub == MissingShapes[shape]
        parent == 5 + Len(sub)
    IN Bodies(<<TyExpr(I32), TyExpr(TBool), BoolLiteral, Block(<<>>, 3), Lambda(1)>>
                \o sub \o <<Block(<<1>>, 0), Lambda(2)>>,
              <<SExpr(parent)>>, <<>>,
              <<LambdaWith(<<Param(1, FALSE)>>, 2, 4), LambdaBody(0, parent + 1)>>,
              <<Global(5), Global(parent + 2)>>,
              [Named("MissingIn") EXCEPT !.shape = shape])
\* f :: () { x : i32 = <missing>; }  and  f :: () { x := 5; x = <missing>; }
MissingLocalValue ==
    Bodies(<<TyExpr(I32), Missing, Block(<<1>>, 0), Lambda(1)>>,
           <<SLocalDef(1)>>, <<LocalDef(1, 2)>>, <<LambdaBody(0, 3)>>, <<Global(4)>>,
           [Named("MissingIn") EXCEPT !.shape = "LocalValue"])
MissingAssigned(op) ==
    Bodies(<<IntLiteral(Num(5)), Local(1), Missing, Block(<<1, 2>>, 0), Lambda(1)>>,
           <<SLocalDef(1), SAssign(2, 3, op)>>, <<LocalDef(0, 1)>>, <<LambdaBody(0, 4)>>,
           <<Global(5)>>,
           [Named("MissingIn") EXCEPT !.shape = IF op THEN "QuickAssign" ELSE "Assign"])

\* g :: () -> type { <gtail> };  T :: comptime { .. }
\* the expressions of the comptime block start at index 5, the block is
\* the last one
ComptimeShapes ==
    [Plain |-> [sub |-> <<TyExpr(I32), Block(<<>>, 5), Comptime(6)>>,
                stmts |-> <<>>, locals |-> <<>>],
     Call |-> [sub |-> <<LocalGlobal(1), CallWith(5, <<>>), Block(<<>>, 6), Comptime(7)>>,
               stmts |-> <<>>, locals |-> <<>>],
     CallThenMissing |->
        [sub |-> <<LocalGlobal(1), CallWith(5, <<>>), Missing, TyExpr(I32),
                   Block(<<1, 2>>, 8), Comptime(9)>>,
         stmts |-> <<SExpr(6), SLocalDef(1)>>, locals |-> <<LocalDef(0, 7)>>],
     Continue |-> [sub |-> <<TyExpr(I32), Block(<<1>>, 5), Comptime(6)>>,
                   stmts |-> <<SContinue(0)>>, locals |-> <<>>],
     ContinueInside |->
        [sub |-> <<BoolLiteral, Block(<<1>>, 0), While(5, 6), TyExpr(I32),
                   Block(<<2>>, 8), Comptime(9)>>,
         stmts |-> <<SContinue(7), SExpr(7)>>, locals |-> <<>>]]
ComptimeType(shape, gtail) ==
    LET sh == ComptimeShapes[shape] IN
    Bodies(<<TyExpr(TType), gtail, Block(<<>>, 2), Lambda(1)>> \o sh.sub,
           sh.stmts, sh.locals, <<LambdaWith(<<>>, 1, 3)>>,
           <<Global(4), Global(4 + Len(sh.sub))>>,
           [Named("ComptimeType") EXCEPT !.shape = shape, !.T = gtail.ty])
\* f :: () -> type { comptime { f() } }
SelfType ==
    Bodies(<<TyExpr(TType), LocalGlobal(1), CallWith(2, <<>>), Block(<<>>, 3), Comptime(4),
             Block(<<>>, 5), Lambda(1)>>,
           <<>>, <<>>, <<LambdaWith(<<>>, 1, 6)>>, <<Global(7)>>,
           [Named("SelfType") EXCEPT !.shape = "Plain"])
\* f :: () -> type { x := <missing>; comptime { f() } }
SelfTypeMissing ==
    Bodies(<<TyExpr(TType), LocalGlobal(1), CallWith(2, <<>>), Block(<<>>, 3), Comptime(4),
             Missing, Block(<<1>>, 5), Lambda(1)>>,
           <<SLocalDef(1)>>, <<LocalDef(0, 6)>>, <<LambdaWith(<<>>, 1, 7)>>, <<Global(8)>>,
           [Named("SelfType") EXCEPT !.shape = "Missing"])
\* n :: () -> usize { <nstmt> 3 };  f :: () { x : [comptime { .. }]i32; }
\* the expressions of the size start at index 6, the comptime block is the
\* last one
SizeShapes ==
    [Call |-> [sub |-> <<LocalGlobal(1), CallWith(6, <<>>), Block(<<>>, 7), Comptime(8)>>,
               stmts |-> <<>>, locals |-> <<>>],
     Literal |-> [sub |-> <<IntLiteral(Num(3)), Block(<<>>, 6), Comptime(7)>>,
                  stmts |-> <<>>, locals |-> <<>>],
     Continue |-> [sub |-> <<IntLiteral(Num(3)), Block(<<3>>, 6), Comptime(7)>>,
                   stmts |-> <<SContinue(0)>>, locals |-> <<>>],
     LocalMissing |-> [sub |-> <<Missing, IntLiteral(Num(3)), Block(<<3>>, 7), Comptime(8)>>,
                       stmts |-> <<SLocalDef(3)>>, locals |-> <<LocalDef(0, 6)>>]]
\* statement 1 is the one of n (x := <missing> or x := 3), statement 2 the
\* declaration in f
SizedLocal(shape, nvalue) ==
    LET sh == SizeShapes[shape]
        size == 5 + Len(sh.sub)
    IN Bodies(<<TyExpr(USize), IntLiteral(Num(3)), nvalue, Block(<<1>>, 2), Lambda(1)>>
                \o sh.sub
                \o <<ArrayDeclSized(size, I32), Block(<<2>>, 0), Lambda(2)>>,
              <<SLocalDef(1), SLocalDef(2)>> \o sh.stmts,
              <<LocalDef(0, 3), LocalDef(size + 1, 0)>> \o sh.locals,
              <<LambdaWith(<<>>, 1, 4), LambdaBody(0, size + 2)>>,
              <<Global(5), Global(size + 3)>>,
              [Named("SizedLocal") EXCEPT !.shape = shape, !.flag = (nvalue.k = "Missing")])

\* n :: () -> usize { m(); 3 };  h :: () -> usize { n(); 3 };
\* main :: () { x : [comptime { n; n; 3 }]i32; }
\* where m is n itself (direct recursion) or h (mutual recursion)
RecursiveSize(mutual) ==
    Bodies(<<TyExpr(USize), LocalGlobal(IF mutual THEN 2 ELSE 1), CallWith(2, <<>>),
             IntLiteral(Num(3)), Block(<<1>>, 4), Lambda(1),
             TyExpr(USize), LocalGlobal(1), CallWith(8, <<>>),
             IntLiteral(Num(3)), Block(<<2>>, 10), Lambda(2),
             LocalGlobal(1), LocalGlobal(1), IntLiteral(Num(3)), Block(<<3, 4>>, 15),
             Comptime(16), ArrayDeclSized(17, I32), Block(<<5>>, 0), Lambda(3)>>,
           <<SExpr(3), SExpr(9), SExpr(13), SExpr(14), SLocalDef(1)>>,
           <<LocalDef(18, 0)>>,
           <<LambdaWith(<<>>, 1, 5), LambdaWith(<<>>, 7, 11), LambdaBody(0, 19)>>,
           <<Global(6), Global(12), Global(20)>>,
           [Named("RecursiveSize") EXCEPT !.flag = mutual])

\* f :: (e : enum { A, B, C }) { switch v in e { names[1] => {}, .. } }
\* with or without `default => {}`
SwitchWorld(names, default) ==
    LET n == Len(names)
        d == IF default THEN 1 ELSE 0
    IN Bodies(<<TyExpr(TEnum(<<"A", "B", "C">>)), ParamRef(1)>>
                \o [i \in 1..(n + d) |-> Block(<<>>, 0)]
                \o <<Switch(2, names, [i \in 1..n |-> 2 + i], IF default THEN n + 3 ELSE 0),
                     Block(<<1>>, 0), Lambda(1)>>,
              <<SExpr(n + d + 3)>>, <<>>,
              <<LambdaWith(<<Param(1, FALSE)>>, 0, n + d + 4)>>, <<Global(n + d + 5)>>,
              [Named("SwitchWorld") EXCEPT !.shape = names, !.flag = default])
ArmLists ==
    {<<>>, <<"A">>, <<"A", "B", "C">>, <<"A", "A">>, <<"B", "A", "B", "B">>, <<"A", "Z">>,
     <<NoName, "C">>}

\* E :: enum { names[1] [= ds[1]], names[2] [= ds[2]], .. } where ds[i] is
\* <<"none">>, <<"bool">> (the literal true) or <<"int", n>>; checks says
\* whether the build traps on integer overflow
EnumWorld(names, ds, checks) ==
    LET at(i) == Cardinality({j \in 1..i : ds[j] # <<"none">>})
        n == at(Len(ds))
        of(k) == CHOOSE i \in 1..Len(ds) : ds[i] # <<"none">> /\ at(i) = k
    IN Bodies([k \in 1..n |-> IF ds[of(k)] = <<"bool">> THEN BoolLiteral
                               ELSE IntLiteral(ds[of(k)][2])]
                \o <<EnumDecl(names, [i \in 1..Len(ds) |->
                                        IF ds[i] = <<"none">> THEN 0 ELSE at(i)])>>,
              <<>>, <<>>, <<>>, <<Global(n + 1)>>,
              [Named("EnumWorld") EXCEPT !.shape = ds, !.flag = checks])
EnumDiscriminants == {<<"none">>, <<"bool">>, <<"int", Num(0)>>, <<"int", Num(1)>>,
                      <<"int", U64Max>>}
EnumNames == {<<"A", "B", "C">>, <<"A", NoName, "C">>}

\* f :: () { x := n; y := ^M x; z : i64 = x; }
RefLocal(M, n) ==
    Bodies(<<IntLiteral(n), Local(1), RefValue(M, 2), PrimitiveTy(I64), Local(1),
             Block(<<1, 2, 3>>, 0), Lambda(1)>>,
           <<SLocalDef(1), SLocalDef(2), SLocalDef(3)>>,
           <<LocalDef(0, 1), LocalDef(0, 3), LocalDef(4, 5)>>,
           <<LambdaBody(0, 6)>>, <<Global(7)>>,
           [Named("RefLocal") EXCEPT !.flag = M, !.n = n])

\* f :: () { y : ^A T = ^M n; }
RefLiteral(A, M, T, n) ==
    Bodies(<<TyExpr(TPointer(A, T)), IntLiteral(n), RefValue(M, 2), Block(<<1>>, 0),
             Lambda(1)>>,
           <<SLocalDef(1)>>, <<LocalDef(1, 3)>>, <<LambdaBody(0, 4)>>, <<Global(5)>>,
           [Named("RefLiteral") EXCEPT !.shape = A, !.flag = M, !.T = T, !.n = n])

\* f :: () { y : T = `b: { break b` <value>; 1 }; }
BreakBlock(T, value) ==
    Bodies(<<value, IntLiteral(Num(1)), Labelled(<<1>>, 2), PrimitiveTy(T),
             Block(<<2>>, 0), Lambda(1)>>,
           <<SBreak(3, 1), SLocalDef(1)>>, <<LocalDef(4, 3)>>,
           <<LambdaBody(0, 5)>>, <<Global(6)>>,
           [Named("BreakBlock") EXCEPT !.T = T, !.shape = value.k, !.n = value.n])

\* f :: () { x := n; y := `b: { break b` x; x }; z : T = x; }
BreakLocal(T, n) ==
    Bodies(<<IntLiteral(n), Local(1), Local(1), Labelled(<<2>>, 3), PrimitiveTy(T),
             Local(1), Block(<<1, 3, 4>>, 0), Lambda(1)>>,
           <<SLocalDef(1), SBreak(4, 2), SLocalDef(2), SLocalDef(3)>>,
           <<LocalDef(0, 1), LocalDef(0, 4), LocalDef(5, 6)>>,
           <<LambdaBody(0, 7)>>, <<Global(8)>>,
           [Named("BreakLocal") EXCEPT !.T = T, !.n = n])

\* f :: () { y : T = `l: loop { break l` n; }; }  and, with a condition,
\* f :: () { y : T = `l: while true { break l` n; }; }
LoopBreak(T, n, conditional) ==
    Bodies(<<IntLiteral(n), Block(<<1>>, 0),
             IF conditional THEN While(7, 2) ELSE Loop(2), PrimitiveTy(T),
             Block(<<2>>, 0), Lambda(1)>>
             \o (IF conditional THEN <<BoolLiteral>> ELSE <<>>),
           <<SBreak(3, 1), SLocalDef(1)>>, <<LocalDef(4, 3)>>,
           <<LambdaBody(0, 5)>>, <<Global(6)>>,
           [Named("LoopBreak") EXCEPT !.T = T, !.n = n, !.flag = conditional])

\* f :: () { x := n; y := `l: loop { break l` x; }; z : T = x; }
LoopLocal(T, n) ==
    Bodies(<<IntLiteral(n), Local(1), Block(<<2>>, 0), Loop(3), PrimitiveTy(T),
             Local(1), Block(<<1, 3, 4>>, 0), Lambda(1)>>,
           <<SLocalDef(1), SBreak(4, 2), SLocalDef(2), SLocalDef(3)>>,
           <<LocalDef(0, 1), LocalDef(0, 4), LocalDef(5, 6)>>,
           <<LambdaBody(0, 7)>>, <<Global(8)>>,
           [Named("LoopLocal") EXCEPT !.T = T, !.n = n])

\* S :: struct { a : i64, b : B };
\* f :: () { x := .{ names = value }; y : S = x; w := S.{ names = value };
\*           z := y.a; }
\* the values of the members of x start at index 4, those of w follow, x is
\* the expression after them
StructWorld(B, names, value) ==
    LET n == Len(names)
        base == 3 + 2 * n
    IN Bodies(<<PrimitiveTy(I64), TyExpr(B), StructDecl(<<"a", "b">>, <<1, 2>>)>>
                \o [i \in 1..(2 * n) |-> value]
                \o <<StructLiteralOf(0, names, [i \in 1..n |-> 3 + i]),
                     LocalGlobal(1), Local(1), LocalGlobal(1),
                     StructLiteralOf(base + 4, names, [i \in 1..n |-> 3 + n + i]),
                     Local(2), MemberNamed(base + 6, "a"),
                     Block(<<1, 2, 3, 4>>, 0), Lambda(1)>>,
              <<SLocalDef(1), SLocalDef(2), SLocalDef(3), SLocalDef(4)>>,
              <<LocalDef(0, base + 1), LocalDef(base + 2, base + 3), LocalDef(0, base + 5),
                LocalDef(0, base + 7)>>,
              <<LambdaBody(0, base + 8)>>, <<Global(3), Global(base + 9)>>,
              [Named("StructWorld") EXCEPT !.T = B, !.shape = names, !.flag = (value.k = "Missing")])
StructNames == {<<>>, <<"a">>, <<"a", "b">>, <<"a", "c">>, <<"b", NoName>>}

\* E :: enum { A, B, C };  f :: (e : E) { #name(args); }
\* the expressions of the arguments start at index 3, the directive is the
\* one after them
DirectiveShapes ==
    [Good |-> [name |-> "unwrap", args |-> <<3, 5>>,
               sub |-> <<ParamRef(1), LocalGlobal(1), MemberNamed(4, "A")>>],
     MissingEnum |-> [name |-> "unwrap", args |-> <<3, 4>>, sub |-> <<Missing, TyExpr(I32)>>],
     MissingVariant |-> [name |-> "unwrap", args |-> <<3, 4>>, sub |-> <<ParamRef(1), Missing>>],
     NotEnum |-> [name |-> "unwrap", args |-> <<3, 4>>,
                  sub |-> <<IntLiteral(Num(5)), TyExpr(I32)>>],
     NotType |-> [name |-> "unwrap", args |-> <<3, 4>>,
                  sub |-> <<ParamRef(1), IntLiteral(Num(5))>>],
     NotVariant |-> [name |-> "unwrap", args |-> <<3, 4>>, sub |-> <<ParamRef(1), TyExpr(I32)>>],
     OtherEnum |-> [name |-> "unwrap", args |-> <<3, 5>>,
                    sub |-> <<ParamRef(1), EnumDecl(<<"X">>, <<0>>), MemberNamed(4, "X")>>],
     SameName |-> [name |-> "unwrap", args |-> <<3, 5>>,
                   sub |-> <<ParamRef(1), EnumDecl(<<"A">>, <<0>>), MemberNamed(4, "A")>>],
     NoVariant |-> [name |-> "unwrap", args |-> <<3, 5>>,
                    sub |-> <<ParamRef(1), LocalGlobal(1), MemberNamed(4, "Z")>>],
     NoArgs |-> [name |-> "unwrap", args |-> <<>>, sub |-> <<>>],
     OneArg |-> [name |-> "unwrap", args |-> <<3>>, sub |-> <<ParamRef(1)>>],
     Extra |-> [name |-> "unwrap", args |-> <<3, 5, 6, 7>>,
                sub |-> <<ParamRef(1), LocalGlobal(1), MemberNamed(4, "B"),
                          IntLiteral(Num(7)), Missing>>],
     Other |-> [name |-> "sizeof", args |-> <<3>>, sub |-> <<ParamRef(1)>>]]
DirectiveWorld(shape) ==
    LET sh == DirectiveShapes[shape]
        directive == 3 + Len(sh.sub)
    IN Bodies(<<EnumDecl(<<"A", "B", "C">>, <<0, 0, 0>>), LocalGlobal(1)>>
                \o sh.sub
                \o <<Directive(sh.name, sh.args), Block(<<1>>, 0), Lambda(1)>>,
              <<SExpr(directive)>>, <<>>,
              <<LambdaWith(<<Param(2, FALSE)>>, 0, directive + 1)>>,
              <<Global(1), Global(directive + 2)>>,
              [Named("DirectiveWorld") EXCEPT !.shape = shape])

\* f :: () { x : <annotation> = 3; }  and, without the value,
\* f :: () { x : <annotation>; }
\* the annotation is the last expression of sub, the expressions of sub
\* start at index 1
AnnotationShapes ==
    [Comptime |-> [sub |-> <<TyExpr(I32), Block(<<>>, 1), Comptime(2)>>, locals |-> <<>>],
     ComptimeValue |-> [sub |-> <<IntLiteral(Num(5)), Block(<<>>, 1), Comptime(2)>>,
                        locals |-> <<>>],
     ComptimeMissing |-> [sub |-> <<Missing, Block(<<>>, 1), Comptime(2)>>, locals |-> <<>>],
     Value |-> [sub |-> <<IntLiteral(Num(5))>>, locals |-> <<>>],
     Bool |-> [sub |-> <<BoolLiteral>>, locals |-> <<>>],
     Missing |-> [sub |-> <<Missing>>, locals |-> <<>>],
     Paren |-> [sub |-> <<TyExpr(I32), Paren(1)>>, locals |-> <<>>],
     Pointer |-> [sub |-> <<TyExpr(TPointer(FALSE, I32))>>, locals |-> <<>>],
     Slice |-> [sub |-> <<TyExpr(TSlice(I32))>>, locals |-> <<>>],
     Struct |-> [sub |-> <<TyExpr(I32), TyExpr(TPointer(TRUE, I32)),
                           StructDecl(<<"a", "b">>, <<1, 2>>)>>, locals |-> <<>>],
     Param |-> [sub |-> <<ParamRef(1)>>, locals |-> <<>>],
     MemberValue |-> [sub |-> <<ParamRef(1), MemberNamed(1, "a")>>, locals |-> <<>>],
     IfType |-> [sub |-> <<BoolLiteral, TyExpr(I32), Block(<<>>, 2), TyExpr(I64),
                           Block(<<>>, 4), If(1, 3, 5)>>, locals |-> <<>>],
     Sum |-> [sub |-> <<Missing, IntLiteral(Num(5)), Binary(1, 2)>>, locals |-> <<>>],
     Local |-> [sub |-> <<TyExpr(I32), Local(2)>>, locals |-> <<ImmutableDef(0, 1)>>],
     MutableLocal |-> [sub |-> <<TyExpr(I32), Local(2)>>, locals |-> <<LocalDef(0, 1)>>],
     ValueLocal |-> [sub |-> <<IntLiteral(Num(5)), Local(2)>>, locals |-> <<ImmutableDef(0, 1)>>]]
AnnotationWorld(shape, valued) ==
    LET sh == AnnotationShapes[shape]
        ann == Len(sh.sub)
        v == IF valued THEN 1 ELSE 0
        has_local == sh.locals # <<>>
    IN Bodies(sh.sub \o (IF valued THEN <<IntLiteral(Num(3))>> ELSE <<>>)
                \o <<PrimitiveTy(I32),
                     Block(IF has_local THEN <<2, 1>> ELSE <<1>>, 0), Lambda(1)>>,
              <<SLocalDef(1)>> \o (IF has_local THEN <<SLocalDef(2)>> ELSE <<>>),
              <<LocalDef(ann, IF valued THEN ann + 1 ELSE 0)>> \o sh.locals,
              <<LambdaWith(<<Param(ann + v + 1, FALSE)>>, 0, ann + v + 2)>>,
              <<Global(ann + v + 3)>>,
              [Named("AnnotationWorld") EXCEPT !.shape = shape, !.flag = valued])

AnnTys == {I64, U8, F64}
Lits == {Num(5), Num(300)}
BaseWorlds ==
    {WeakPropagation(T, n) : T \in AnnTys, n \in Lits}
    \cup {SelfAssign(T, n) : T \in AnnTys, n \in Lits}
    \cup {SelfQuickAssign(T, n) : T \in AnnTys, n \in Lits}
    \cup {MutualLocals(T, n) : T \in AnnTys, n \in Lits}
    \cup {SignSwitch(n) : n \in Lits}
    \cup {ArrayToSlice(A, n) : A \in {TSlice(I64), TArray(FALSE, Num(2), U8)}, n \in Lits}
    \cup {Chain(n) : n \in Lits}
    \cup {WhileThenGlobal(n) : n \in Lits}
    \cup {AssignThenGlobal(mutable) : mutable \in BOOLEAN}
    \cup {GlobalLiteral(n) : n \in GlobalLits}
    \cup {RecursiveSize(mutual) : mutual \in BOOLEAN}
    \cup {MemberRef(n) : n \in Lits}
    \cup {MixedSigns(T) : T \in AnnTys}
    \cup {IfTail(tail) : tail \in {IntLiteral(Num(5)), Missing, BoolLiteral}}
    \cup {IfStmts(continues) : continues \in BOOLEAN}
    \cup {IfLocal(T, n) : T \in {I64, U8}, n \in Lits}
    \cup {IndexParam(SRC, n) : SRC \in IndexSources, n \in {Num(1), Num(3)}}
    \cup UNION {{DerefParam(M), DerefLocalNoValue(M), DerefLocalValue(M), DerefCall(M),
                 DerefCast(M)} : M \in BOOLEAN}
    \cup {CallWorld(p, varargs, n) : p \in 0..MaxParams, varargs \in BOOLEAN, n \in 0..MaxArgs}
    \cup {SwitchWorld(names, default) : names \in ArmLists, default \in BOOLEAN}
    \cup {MissingIn(shape) : shape \in DOMAIN MissingShapes}
    \cup {ComptimeType(shape, gtail) :
             shape \in DOMAIN ComptimeShapes, gtail \in {TyExpr(I32), Missing}}
    \cup {SelfType, SelfTypeMissing}
    \cup {SizedLocal(shape, nvalue) :
             shape \in DOMAIN SizeShapes, nvalue \in {IntLiteral(Num(3)), Missing}}
    \cup {EnumWorld(names, ds, checks) :
             names \in EnumNames, ds \in [1..3 -> EnumDiscriminants], checks \in BOOLEAN}
    \cup {MissingLocalValue} \cup {MissingAssigned(op) : op \in BOOLEAN}
    \cup {Cycle2, Cycle1, CycleFan, CycleAndUser, SelfRecursion, MutualRecursion, MemberCycle}
    \cup {RefLocal(M, n) : M \in BOOLEAN, n \in Lits}
    \cup {RefLiteral(A, M, T, n) : A \in BOOLEAN, M \in BOOLEAN, T \in {I64, U8}, n \in Lits}
    \cup {BreakBlock(T, value) :
             T \in {I64, U8}, value \in {IntLiteral(Num(5)), IntLiteral(Num(300)), BoolLiteral,
                                         Missing}}
    \cup {BreakLocal(T, n) : T \in {I64, U8}, n \in Lits}
    \cup {LoopBreak(T, n, conditional) : T \in {I64, U8}, n \in Lits, conditional \in BOOLEAN}
    \cup {LoopLocal(T, n) : T \in {I64, U8}, n \in Lits}
    \cup {StructWorld(B, names, value) :
             B \in {I64, TPointer(FALSE, I64)}, names \in StructNames,
             value \in {IntLiteral(Num(5)), Missing}}
    \cup {DirectiveWorld(shape) : shape \in DOMAIN DirectiveShapes}
    \cup {AnnotationWorld(shape, valued) :
             shape \in DOMAIN AnnotationShapes, valued \in BOOLEAN}

\* the worlds in which the type library can meet an Unknown operand: an
\* expression is missing and a rule asks the library (Ty::max, can_perform)
LibSensitive(w) ==
    /\ \E i \in 1..Len(w.exprs) : w.exprs[i].k = "Missing"
    /\ \/ \E i \in 1..Len(w.exprs) :
             w.exprs[i].k \in {"Binary", "Unary", "If", "Switch", "ArrayLiteral"}
       \/ \E s \in 1..Len(w.stmts) :
             w.stmts[s].k = "Break" \/ (w.stmts[s].k = "Assign" /\ w.stmts[s].op)
\* every world with the library that tolerates Unknown, the sensitive ones
\* with every other library as well
Worlds ==
    BaseWorlds
    \cup {[w EXCEPT !.lib = v] : w \in {b \in BaseWorlds : LibSensitive(b)}, v \in LibVariants}

(***************************************************************************)
(* Back-end lowering: FunctionCompiler (crates/codegen/src/functions.rs).  *)
(* The input is a typed program: exprs and stmts as above, tys[e] the type *)
(* inference recorded for e, funcs[f] = [param_tys, return_ty, body] the   *)
(* functions by Fqn (indices count from 1).  The output of one finish is a *)
(* unit: the instructions in emission order, the stack slots, the blocks.  *)
(* A value is <<"v", k>> (the result of the k-th instruction) or           *)
(* <<"bp", block, k>> (the k-th parameter of a block).                     *)
(***************************************************************************)
GlobalPath(fqn) == Node("Global", fqn, 0)
\* the expressions only the back end is given: Binary and Unary with their
\* operator (vs), Expr::Path with the Fqn its field names in a module (b) or
\* the name of the field of a struct (vs), Expr::StringLiteral with the bytes
\* of its text (ss)
BinaryOf(lhs, rhs, op) == [Node("Binary", lhs, rhs) EXCEPT !.vs = <<op>>]
UnaryOf(e, op) == [Node("Unary", e, 0) EXCEPT !.vs = <<op>>]
Path(previous, fqn, name) == [Node("Path", previous, fqn) EXCEPT !.vs = <<name>>]
StructLiteral(values) == [Node("StructLiteral", 0, 0) EXCEPT !.ss = values]
StringLiteral(text) == [Node("StringLiteral", 0, 0) EXCEPT !.ss = text]
Array2 == TArray(FALSE, Num(2), I64)
\* `[0]i32`, the type of an array literal that has no item
Array0 == TArray(FALSE, Num(0), I32)
GE(e) == program.exprs[e]
GTy(e) == program.tys[e]
Func(fqn) == program.funcs[fqn]
\* tys[fqn] is a Signature::Function for the Fqns of the functions and a
\* Signature::Global for the Fqns that follow them
IsFunctionSig(fqn) == fqn <= Len(program.funcs)
GlobalSig(fqn) == program.globals[fqn - Len(program.funcs)]

\* the backend value types
NoType == ""
PointerType == "ptr"
\* the bytes of a pointer of the target
PointerBytes == 8
\* ResolvedTy::Struct together with the layout StructMemory::new gives it:
\* fields[i] = <<name, ty>>, offsets[i] the offset of field i
TStruct(fields, offsets, size) == <<"Struct", fields, offsets, size>>
field_tys(ty) == [i \in 1..Len(ty[2]) |-> ty[2][i][2]]
field_idx(ty, name) ==
    IF \E i \in 1..Len(ty[2]) : ty[2][i][1] = name
    THEN CHOOSE i \in 1..Len(ty[2]) :
            ty[2][i][1] = name /\ \A j \in 1..(i - 1) : ty[2][j][1] # name
    ELSE 0
is_aggregate(ty) == ty[1] \in {"Array", "Slice", "Struct"}
\* a type no value of which takes any memory: void, an array of no items or
\* of empty items, a struct all of whose fields are empty
RECURSIVE is_empty(_)
is_empty(ty) ==
    CASE ty = TVoid -> TRUE
      [] ty[1] = "Array" -> ty[3] = Num(0) \/ is_empty(ty[4])
      [] ty[1] = "Struct" -> \A i \in 1..Len(ty[2]) : is_empty(ty[2][i][2])
      [] OTHER -> FALSE
RECURSIVE get_size_in_bytes(_)
get_size_in_bytes(ty) ==
    CASE ty[1] = "Array" -> ty[3][3] * get_size_in_bytes(ty[4])
      [] ty[1] = "Struct" -> ty[4]
      [] ty[1] \in {"IInt", "UInt", "Float"} ->
           IF ty[2] = 255 THEN PointerBytes ELSE IF ty[2] = 0 THEN 4 ELSE ty[2] \div 8
      [] ty = TBool -> 1
      [] ty[1] \in {"Pointer", "Function", "String"} -> PointerBytes
      [] OTHER -> 0
\* to_comp_type(..) is a CompType::Pointer
is_pointer_type(ty) == ty[1] \in {"Array", "Slice", "Struct", "Pointer", "Function", "String"}
\* to_comp_type(..).into_number_type(): NoType stands for None
into_number_type(ty) ==
    CASE ty[1] \in {"IInt", "UInt"} ->
           (CASE ty[2] = 8 -> "i8" [] ty[2] = 16 -> "i16" [] ty[2] = 64 -> "i64"
              [] ty[2] = 128 -> "i128" [] ty[2] = 255 -> PointerType [] OTHER -> "i32")
      [] ty[1] = "Float" -> IF ty[2] = 32 THEN "f32" ELSE "f64"
      [] ty = TBool -> "i8"
      [] OTHER -> NoType
\* to_comp_type(..).into_real_type()
into_real_type(ty) ==
    IF is_pointer_type(ty) THEN PointerType ELSE into_number_type(ty)
\* NumberType { ty, float, signed } and NumberType::bit_width, NumberType::max
NumberType(ty) ==
    [ty |-> into_number_type(ty), float |-> ty[1] = "Float",
     signed |-> ty[1] \in {"IInt", "Float"}]
bit_width(number_ty) ==
    CASE number_ty.ty = "i8" -> 8 [] number_ty.ty = "i16" -> 16
      [] number_ty.ty \in {"i32", "f32"} -> 32 [] number_ty.ty = "i128" -> 128
      [] number_ty.ty = PointerType -> 8 * PointerBytes [] OTHER -> 64
wider(lhs_ty, rhs_ty) == IF bit_width(lhs_ty) >= bit_width(rhs_ty) THEN lhs_ty ELSE rhs_ty
number_max(lhs_ty, rhs_ty) ==
    [ty |-> IF lhs_ty.float = rhs_ty.float THEN wider(lhs_ty, rhs_ty).ty
            ELSE IF bit_width(wider(lhs_ty, rhs_ty)) = 32 THEN "f32" ELSE "f64",
     float |-> lhs_ty.float \/ rhs_ty.float,
     signed |-> lhs_ty.signed \/ rhs_ty.signed]

\* the declared indices whose type has a backend value type, in order
RealIdx(param_tys) ==
    SelectSeq([i \in 1..Len(param_tys) |-> i],
              LAMBDA i : into_real_type(param_tys[i]) # NoType)
\* (param_tys, return_ty).to_cranelift_signature(): the backend signature
\* and new_idx_to_old_idx (new_idx_to_old_idx[new] is the declared index)
to_cranelift_signature(param_tys, return_ty) ==
    [params |-> [k \in 1..Len(RealIdx(param_tys)) |->
                    into_real_type(param_tys[RealIdx(param_tys)[k]])]
                \o (IF is_aggregate(return_ty) THEN <<PointerType>> ELSE <<>>),
     returns |-> IF into_real_type(return_ty) # NoType
                 THEN <<into_real_type(return_ty)>> ELSE <<>>,
     new_idx_to_old_idx |-> RealIdx(param_tys)]
SignatureOf(fqn) == to_cranelift_signature(Func(fqn).param_tys, Func(fqn).return_ty)

\* the FunctionBuilder and the FunctionCompiler's tables.  A panic ends the
\* compilation: nothing is emitted after it and no value comes out of it
NoValue == <<>>
NewBuilder(param_tys) ==
    [insts |-> <<>>, slots |-> <<>>, blocks |-> <<>>, cur |-> 0, vars |-> <<>>,
     params |-> [i \in 1..Len(param_tys) |-> 0], dest_param |-> 0,
     local_functions |-> {}, asked |-> <<>>, ifs |-> <<>>, panic |-> FALSE,
     locals |-> [l \in 1..Len(program.locals) |-> NoValue], local_lambdas |-> {},
     lambdas_to_compile |-> <<>>, globals |-> globals]
Ins(op, args, ty, x) == [op |-> op, args |-> args, ty |-> ty, x |-> x, block |-> 0]
Emit(b, inst) ==
    IF b.panic THEN b ELSE [b EXCEPT !.insts = Append(@, [inst EXCEPT !.block = b.cur])]
\* the value of the k-th instruction emitted after b
Result(b, k) == <<"v", Len(b.insts) + k>>
With(b, v) == [b |-> b, v |-> IF b.panic THEN NoValue ELSE v]
Some(b) == With(b, Result(b, 0))
None(b) == [b |-> b, v |-> NoValue]
Unwound(b) == [b EXCEPT !.panic = TRUE]
\* Option::unwrap of a compiled value
unwrap(r) == IF r.v = NoValue THEN None(Unwound(r.b)) ELSE r
create_block(b, params) == IF b.panic THEN b ELSE [b EXCEPT !.blocks = Append(@, params)]
switch_to_block(b, block) == IF b.panic THEN b ELSE [b EXCEPT !.cur = block]
new_var(b) == [b EXCEPT !.vars = Append(@, NoValue)]
def_var(b, var, value) == IF b.panic THEN b ELSE [b EXCEPT !.vars[var] = value]
use_var(b, var) == b.vars[var]
iconst(b, ty, n) == Emit(b, Ins("iconst", <<>>, ty, <<n>>))
create_sized_stack_slot(b, size) ==
    IF b.panic THEN b ELSE [b EXCEPT !.slots = Append(@, size)]
\* create_sized_stack_slot followed by stack_addr of the new slot
stack_addr(b, size) ==
    Emit(create_sized_stack_slot(b, size),
         Ins("stack_addr", <<>>, PointerType, <<Len(b.slots) + 1>>))
\* iconst of the size followed by call_memcpy(dest, src, size)
call_memcpy(b, dest, src, size) ==
    Emit(iconst(b, PointerType, size), Ins("memcpy", <<dest, src>>, NoType, <<size>>))
return_(b, values) == Emit(b, Ins("return", values, NoType, <<>>))
jump(b, block, values) == Emit(b, Ins("jump", values, NoType, <<block>>))
load(b, ty, flags, addr, offset) == Emit(b, Ins("load", <<addr>>, ty, <<offset, flags>>))
\* gen::cast: no instruction when the value already has the type
cast(b, value, from, to) ==
    IF from = to THEN With(b, value)
    ELSE Some(Emit(b, Ins("cast", <<value>>, to, <<from>>)))
\* the backend type of a value of the unit b
TypeOfValue(b, v) ==
    IF v[1] = "v" THEN b.insts[v[2]].ty ELSE b.blocks[v[2]][v[3]]

\* get_local_func: the first request in a function goes to get_func_id
get_local_func(b, fqn) ==
    IF fqn \in b.local_functions \/ b.panic THEN b
    ELSE [b EXCEPT !.local_functions = @ \cup {fqn}, !.asked = Append(@, fqn)]

\* the target of the build is little endian
LittleEndian == TRUE
\* byte k (counted from the low end) of the u64 n
ByteOf(n, k) == IF k >= 8 THEN 0 ELSE (n[3 - (k \div 3)] \div (256 ^ (k % 3))) % 256
\* (n as uN).to_le_bytes() or to_be_bytes(), N = 8 * width
to_bytes(n, width) ==
    [k \in 1..width |-> ByteOf(n, IF LittleEndian THEN k - 1 ELSE width - k)]
RECURSIVE expr_to_const_data(_)
\* FunctionCompiler::expr_to_const_data: [ok, bytes], ok = FALSE for a panic
expr_to_const_data(expr) ==
    CASE GE(expr).k = "IntLiteral" ->
           IF into_number_type(GTy(expr)) = NoType THEN [ok |-> FALSE, bytes |-> <<>>]
           ELSE [ok |-> TRUE,
                 bytes |-> to_bytes(GE(expr).n, bit_width(NumberType(GTy(expr))) \div 8)]
      [] GE(expr).k = "BoolLiteral" -> [ok |-> TRUE, bytes |-> <<GE(expr).n[3]>>]
      [] GE(expr).k = "StringLiteral" -> [ok |-> TRUE, bytes |-> Append(GE(expr).ss, 0)]
      [] GE(expr).k = "ArrayLiteral" /\ GE(expr).ss # <<>> ->
           [ok |-> \A i \in 1..Len(GE(expr).ss) : expr_to_const_data(GE(expr).ss[i]).ok,
            bytes |-> Concat([i \in 1..Len(GE(expr).ss) |->
                                 expr_to_const_data(GE(expr).ss[i]).bytes],
                             Len(GE(expr).ss))]
      [] OTHER -> [ok |-> FALSE, bytes |-> <<>>]
\* create_global_data: one more data object in the module
create_global_data(b, name, data) ==
    [b EXCEPT !.globals = Append(@, [name |-> name, data |-> data])]
\* create_global_str: the name comes from str_id_gen
str_id_gen(b) == Cardinality({k \in 1..Len(b.globals) : b.globals[k].name[1] = ".str"})
create_global_str(b, text) ==
    create_global_data(b, <<".str", str_id_gen(b)>>, Append(text, 0))
\* FunctionCompiler::compile_global
compile_global(b, fqn) ==
    IF b.panic \/ \E k \in 1..Len(b.globals) : b.globals[k].name = <<"fqn", fqn>> THEN b
    ELSE IF ~expr_to_const_data(GlobalSig(fqn).value).ok THEN Unwound(b)
    ELSE create_global_data(b, <<"fqn", fqn>>, expr_to_const_data(GlobalSig(fqn).value).bytes)

\* FunctionCompiler::lambda_to_local_func
lambda_to_local_func(b, expr, lambda) ==
    IF lambda \in b.local_lambdas \/ b.panic THEN b
    ELSE IF ~IsFunction(GTy(expr)) THEN Unwound(b)
    ELSE [b EXCEPT !.local_lambdas = @ \cup {lambda},
                   !.lambdas_to_compile =
                       Append(@, [lambda |-> lambda, param_tys |-> GTy(expr)[3],
                                  return_ty |-> GTy(expr)[2]])]

RECURSIVE compile_expr_with_args(_, _, _)
RECURSIVE store_expr_in_memory(_, _, _, _, _, _, _)
RECURSIVE store_items(_, _, _, _, _, _, _, _)
RECURSIVE store_struct_fields(_, _, _, _, _, _, _, _)
RECURSIVE compile_args(_, _, _, _, _)
RECURSIVE compile_stmts(_, _, _)

\* FunctionCompiler::compile_expr
compile_expr(b, expr) == compile_expr_with_args(b, expr, FALSE)

\* store_expr_in_memory, the last arm: the value goes to the slot
store_item(r, stack_slot, offset) ==
    IF r.v = NoValue THEN Unwound(r.b)
    ELSE Emit(r.b, Ins("stack_store", <<r.v>>, NoType, <<stack_slot, offset>>))
\* store_expr_in_memory, the arm of an aggregate that is no literal: it is
\* copied to stack_addr + offset
store_aggregate(r, expr_size, stack_addr_v, offset) ==
    IF r.v = NoValue THEN Unwound(r.b)
    ELSE call_memcpy(Emit(iconst(r.b, PointerType, offset),
                          Ins("iadd", <<stack_addr_v, Result(r.b, 1)>>, PointerType, <<>>)),
                     Result(r.b, 2), r.v, expr_size)
\* FunctionCompiler::store_array_items
store_array_items(b, items, stack_slot, stack_addr_v, offset) ==
    IF items = <<>> THEN Unwound(b)
    ELSE store_items(b, items, GTy(items[1]), get_size_in_bytes(GTy(items[1])),
                     stack_slot, stack_addr_v, offset, 1)
\* the loop of store_array_items; idx counts from 1
store_items(b, items, inner_ty, inner_size, stack_slot, stack_addr_v, offset, idx) ==
    IF idx > Len(items) \/ b.panic THEN b
    ELSE store_items(store_expr_in_memory(b, items[idx], inner_ty, inner_size, stack_slot,
                                          stack_addr_v, offset + inner_size * (idx - 1)),
                     items, inner_ty, inner_size, stack_slot, stack_addr_v, offset, idx + 1)
\* FunctionCompiler::store_struct_fields; idx counts from 1
store_struct_fields(b, struct_ty, field_values, stack_slot, stack_addr_v, offset, idx, n) ==
    IF idx > n \/ b.panic THEN b
    ELSE IF idx > Len(struct_ty[2]) THEN Unwound(b)
    ELSE store_struct_fields(
             store_expr_in_memory(b, field_values[idx], field_tys(struct_ty)[idx],
                                  get_size_in_bytes(field_tys(struct_ty)[idx]), stack_slot,
                                  stack_addr_v, offset + struct_ty[3][idx]),
             struct_ty, field_values, stack_slot, stack_addr_v, offset, idx + 1, n)
\* FunctionCompiler::store_expr_in_memory
store_expr_in_memory(b, expr, expr_ty, expr_size, stack_slot, stack_addr_v, offset) ==
    IF b.panic THEN b
    ELSE CASE GE(expr).k = "ArrayLiteral" ->
                store_array_items(b, GE(expr).ss, stack_slot, stack_addr_v, offset)
           [] GE(expr).k = "StructLiteral" ->
                \* `struct_info.as_ref().unwrap()`
                IF expr_ty[1] # "Struct" THEN Unwound(b)
                ELSE store_struct_fields(b, expr_ty, GE(expr).ss, stack_slot, stack_addr_v,
                                         offset, 1, Len(GE(expr).ss))
           [] OTHER ->
                IF is_aggregate(expr_ty)
                THEN store_aggregate(compile_expr(b, expr), expr_size, stack_addr_v, offset)
                ELSE store_item(compile_expr(b, expr), stack_slot, offset)

\* Expr::IntLiteral and Expr::FloatLiteral
int_literal(b, number_ty, n) ==
    IF number_ty.ty = NoType THEN None(Unwound(b))
    ELSE IF ~number_ty.float THEN Some(iconst(b, number_ty.ty, n))
    ELSE IF bit_width(number_ty) = 32 THEN Some(Emit(b, Ins("f32const", <<>>, "f32", <<n>>)))
    ELSE Some(Emit(b, Ins("f64const", <<>>, "f64", <<n>>)))
float_literal(b, number_ty) ==
    IF number_ty.ty = NoType THEN None(Unwound(b))
    ELSE IF bit_width(number_ty) = 32 THEN Some(Emit(b, Ins("f32const", <<>>, "f32", <<>>)))
    ELSE IF bit_width(number_ty) = 64 THEN Some(Emit(b, Ins("f64const", <<>>, "f64", <<>>)))
    ELSE None(Unwound(b))
\* Expr::StringLiteral
string_literal(b, text) ==
    Some(Emit(create_global_str(b, text),
              Ins("symbol_value", <<>>, PointerType, <<<<".str", str_id_gen(b)>>>>)))

\* Expr::Array
compile_array(b, expr) ==
    IF is_empty(GTy(expr)) THEN None(b)
    ELSE With(store_array_items(stack_addr(b, get_size_in_bytes(GTy(expr))), GE(expr).ss,
                                Len(b.slots) + 1, Result(b, 1), 0),
              Result(b, 1))

\* Expr::Index: the address is array + index * element_size
index_loaded(b, proper_addr, element_ty, no_load) ==
    IF no_load \/ is_aggregate(element_ty) THEN With(b, proper_addr)
    ELSE IF into_real_type(element_ty) = NoType THEN None(Unwound(b))
    ELSE Some(load(b, into_real_type(element_ty), "aligned", proper_addr, 0))
index_addr(naive_index, array, element_ty, no_load) ==
    index_loaded(Emit(Emit(iconst(naive_index.b, PointerType, get_size_in_bytes(element_ty)),
                           Ins("imul", <<naive_index.v, Result(naive_index.b, 1)>>,
                               PointerType, <<>>)),
                      Ins("iadd", <<array, Result(naive_index.b, 2)>>, PointerType, <<>>)),
                 Result(naive_index.b, 3), element_ty, no_load)
index_cast(index, array, index_ty, element_ty, no_load) ==
    IF index.v = NoValue THEN None(Unwound(index.b))
    ELSE index_addr(cast(index.b, index.v, index_ty, PointerType), array, element_ty, no_load)
index_of(array, expr, no_load) ==
    IF array.v = NoValue \/ into_number_type(GTy(GE(expr).b)) = NoType
    THEN None(Unwound(array.b))
    ELSE index_cast(compile_expr(array.b, GE(expr).b), array.v,
                    into_number_type(GTy(GE(expr).b)), GTy(expr), no_load)
compile_index(b, expr, no_load) ==
    IF is_empty(GTy(expr)) THEN None(b)
    ELSE index_of(compile_expr(b, GE(expr).a), expr, no_load)

\* Expr::Cast
compile_cast(inner, cast_from, cast_to) ==
    IF inner.v = NoValue \/ cast_from = NoType THEN inner
    ELSE IF cast_to = NoType THEN None(Unwound(inner.b))
    ELSE cast(inner.b, inner.v, cast_from, cast_to)

\* Expr::Ref
ref_stored(r, stack_slot) ==
    IF r.v = NoValue THEN None(Unwound(r.b))
    ELSE Some(Emit(Emit(r.b, Ins("stack_store", <<r.v>>, NoType, <<stack_slot, 0>>)),
                   Ins("stack_addr", <<>>, PointerType, <<stack_slot>>)))
compile_ref(b, expr) ==
    IF is_aggregate(GTy(expr)) THEN unwrap(compile_expr(b, expr))
    ELSE IF GE(expr).k \in {"Local", "Global"} THEN compile_expr_with_args(b, expr, TRUE)
    ELSE ref_stored(compile_expr(create_sized_stack_slot(b, get_size_in_bytes(GTy(expr))),
                                 expr),
                    Len(b.slots) + 1)

\* Expr::Deref
compile_deref(pointer, self_ty, no_load) ==
    IF pointer.v = NoValue \/ is_aggregate(self_ty) THEN pointer
    ELSE IF no_load THEN Some(load(pointer.b, PointerType, "trusted", pointer.v, 0))
    ELSE IF into_real_type(self_ty) = NoType THEN None(Unwound(pointer.b))
    ELSE Some(load(pointer.b, into_real_type(self_ty), "trusted", pointer.v, 0))

\* Expr::Binary: the instruction of the operator (<<>>: unreachable!())
binary_ins(op, max_ty) ==
    IF max_ty.float
    THEN CASE op = "Add" -> <<"fadd">> [] op = "Sub" -> <<"fsub">> [] op = "Mul" -> <<"fmul">>
           [] op = "Div" -> <<"fdiv">> [] op = "Mod" -> <<>>
           [] op = "Lt" -> <<"fcmp", "LessThan">> [] op = "Gt" -> <<"fcmp", "GreaterThan">>
           [] op = "Le" -> <<"fcmp", "LessThanOrEqual">>
           [] op = "Ge" -> <<"fcmp", "GreaterThanOrEqual">>
           [] op = "Eq" -> <<"fcmp", "Equal">> [] op = "Ne" -> <<"fcmp", "NotEqual">>
           [] op = "And" -> <<"band">> [] op = "Or" -> <<"bor">>
    ELSE CASE op = "Add" -> <<"iadd">> [] op = "Sub" -> <<"isub">> [] op = "Mul" -> <<"imul">>
           [] op = "Div" -> IF max_ty.signed THEN <<"sdiv">> ELSE <<"udiv">>
           [] op = "Mod" -> IF max_ty.signed THEN <<"srem">> ELSE <<"urem">>
           [] op = "Lt" -> <<"icmp", IF max_ty.signed THEN "SignedLessThan"
                                     ELSE "UnsignedLessThan">>
           [] op = "Gt" -> <<"icmp", IF max_ty.signed THEN "SignedGreaterThan"
                                     ELSE "UnsignedGreaterThan">>
           [] op = "Le" -> <<"icmp", IF max_ty.signed THEN "SignedLessThanOrEqual"
                                     ELSE "UnsignedLessThanOrEqual">>
           [] op = "Ge" -> <<"icmp", IF max_ty.signed THEN "SignedGreaterThanOrEqual"
                                     ELSE "UnsignedGreaterThanOrEqual">>
           [] op = "Eq" -> <<"icmp", "Equal">> [] op = "Ne" -> <<"icmp", "NotEqual">>
           [] op = "And" -> <<"band">> [] op = "Or" -> <<"bor">>
binary_op(rhs, lhs, ins, max_ty) ==
    IF ins = <<>> THEN None(Unwound(rhs.b))
    ELSE Some(Emit(rhs.b, Ins(ins[1], <<lhs, rhs.v>>,
                              IF ins[1] \in {"icmp", "fcmp"} THEN "i8" ELSE max_ty.ty,
                              Tail(ins))))
binary_cast(lhs, rhs, rhs_ty, op, max_ty) ==
    binary_op(cast(lhs.b, rhs, rhs_ty.ty, max_ty.ty), lhs.v, binary_ins(op, max_ty), max_ty)
binary_rhs(rhs, lhs, lhs_ty, rhs_ty, op) ==
    IF rhs.v = NoValue \/ lhs_ty.ty = NoType \/ rhs_ty.ty = NoType
    THEN None(Unwound(rhs.b))
    ELSE binary_cast(cast(rhs.b, lhs, lhs_ty.ty, number_max(lhs_ty, rhs_ty).ty), rhs.v,
                     rhs_ty, op, number_max(lhs_ty, rhs_ty))
compile_binary(lhs, expr) ==
    IF lhs.v = NoValue THEN None(Unwound(lhs.b))
    ELSE binary_rhs(compile_expr(lhs.b, GE(expr).b), lhs.v, NumberType(GTy(GE(expr).a)),
                    NumberType(GTy(GE(expr).b)), GE(expr).vs[1])

\* Expr::Unary
compile_unary(r, op) ==
    IF r.v = NoValue THEN None(Unwound(r.b))
    ELSE CASE op = "Pos" -> r
           [] op = "Neg" -> Some(Emit(r.b, Ins("ineg", <<r.v>>, TypeOfValue(r.b, r.v), <<>>)))
           [] op = "Not" -> Some(Emit(r.b, Ins("bnot", <<r.v>>, TypeOfValue(r.b, r.v), <<>>)))

\* the closure of the filter_map over args.zip(param_tys)
arg_value(r, actual_ty, expected_ty) ==
    IF into_number_type(actual_ty) # NoType
    THEN IF r.v = NoValue \/ into_number_type(expected_ty) = NoType
         THEN None(Unwound(r.b))
         ELSE cast(r.b, r.v, into_number_type(actual_ty), into_number_type(expected_ty))
    ELSE r
pushed(r, arg_values) ==
    [b |-> r.b, v |-> IF r.v = NoValue THEN arg_values ELSE Append(arg_values, r.v)]
args_next(r, args, param_tys, i) == compile_args(r.b, args, param_tys, i + 1, r.v)
compile_args(b, args, param_tys, i, arg_values) ==
    IF i > Len(args) \/ i > Len(param_tys) \/ b.panic THEN [b |-> b, v |-> arg_values]
    ELSE args_next(pushed(arg_value(compile_expr(b, args[i]), GTy(args[i]), param_tys[i]),
                          arg_values),
                   args, param_tys, i)

\* Expr::Call: an aggregate result gets a stack slot of the caller whose
\* address is pushed after the arguments
with_dest(r, return_ty) ==
    IF is_aggregate(return_ty)
    THEN [b |-> stack_addr(r.b, get_size_in_bytes(return_ty)),
          v |-> Append(r.v, Result(r.b, 1))]
    ELSE r
\* `self.builder.ins().call(local_func, &arg_values)`: target is
\* <<"fqn", f>> or <<"lambda", l>>, returns the results of its signature
call_ins(b, arg_values, target, returns) ==
    Emit(b, Ins("call", arg_values, IF returns = <<>> THEN NoType ELSE returns[1],
                <<target>>))
\* callee Expr::Global, or a Path into a module: a direct call of
\* get_local_func(fqn)
call(r, fqn) ==
    call_ins(get_local_func(r.b, fqn), r.v, <<"fqn", fqn>>, SignatureOf(fqn).returns)
\* callee Expr::Lambda, or an immutable local whose value is one: a direct
\* call of lambda_to_local_func(callee, lambda)
call_lambda(r, callee, lambda) ==
    call_ins(lambda_to_local_func(r.b, callee, lambda), r.v, <<"lambda", lambda>>,
             to_cranelift_signature(GTy(callee)[3], GTy(callee)[2]).returns)
\* any other callee: call_indirect through the compiled callee, with the
\* signature of its type
indirect(c, arg_values, returns) ==
    IF c.v = NoValue THEN Unwound(c.b)
    ELSE Emit(c.b, Ins("call_indirect", arg_values,
                       IF returns = <<>> THEN NoType ELSE returns[1], <<c.v>>))
call_indirect(r, callee) ==
    indirect(compile_expr(r.b, callee), r.v,
             to_cranelift_signature(GTy(callee)[3], GTy(callee)[2]).returns)
\* the match on the callee
call_callee(r, callee) ==
    CASE GE(callee).k = "Global" -> call(r, GE(callee).a)
      [] GE(callee).k = "Local" /\ ~program.locals[GE(callee).a].mutable ->
           IF GE(program.locals[GE(callee).a].value).k = "Lambda"
           THEN call_lambda(r, callee, GE(program.locals[GE(callee).a].value).a)
           ELSE call_indirect(r, callee)
      [] GE(callee).k = "Path" ->
           IF GE(GE(callee).a).k = "Module" THEN call(r, GE(callee).b)
           ELSE call_indirect(r, callee)
      [] GE(callee).k = "Lambda" -> call_lambda(r, callee, GE(callee).a)
      [] OTHER -> call_indirect(r, callee)
\* `self.builder.inst_results(call)[0]` unless the return type is empty
call_result(b, return_ty) ==
    IF is_empty(return_ty) \/ b.panic THEN None(b)
    ELSE IF b.insts[Len(b.insts)].ty = NoType THEN None(Unwound(b))
    ELSE Some(b)
compile_call(b, callee, args) ==
    IF ~IsFunction(GTy(callee)) THEN None(Unwound(b))
    ELSE call_result(call_callee(with_dest(compile_args(b, args, GTy(callee)[3], 1, <<>>),
                                           GTy(callee)[2]),
                                 callee),
                     GTy(callee)[2])

\* Stmt::LocalDef: the local gets a stack slot that holds its value
local_defined(b, local_def, stack_addr_v) ==
    IF b.panic THEN b ELSE [b EXCEPT !.locals[local_def] = stack_addr_v]
compile_local_def(b, local_def, value, ty) ==
    IF is_empty(ty) THEN b
    ELSE local_defined(store_expr_in_memory(stack_addr(b, get_size_in_bytes(ty)), value, ty,
                                            get_size_in_bytes(ty), Len(b.slots) + 1,
                                            Result(b, 1), 0),
                       local_def, Result(b, 1))
\* Stmt::Assign: a memcpy for an aggregate, a store for any other value
assigned(value, source, value_ty) ==
    IF value.v = NoValue THEN value.b
    ELSE IF is_aggregate(value_ty)
    THEN call_memcpy(value.b, source, value.v, get_size_in_bytes(value_ty))
    ELSE Emit(value.b, Ins("store", <<value.v, source>>, NoType, <<0>>))
compile_assign(source, value) ==
    IF source.v = NoValue THEN source.b
    ELSE assigned(compile_expr(source.b, value), source.v, GTy(value))
\* FunctionCompiler::compile_stmt
compile_stmt(b, stmt) ==
    CASE stmt.k = "Expr" ->
           IF GTy(stmt.a) = TUnknown THEN Unwound(b) ELSE compile_expr(b, stmt.a).b
      [] stmt.k = "LocalDef" ->
           compile_local_def(b, stmt.a, program.locals[stmt.a].value,
                             program.local_tys[stmt.a])
      [] stmt.k = "Assign" ->
           compile_assign(compile_expr_with_args(b, stmt.a, TRUE), stmt.b)
\* `for stmt in stmts { self.compile_stmt(&stmt); }`
compile_stmts(b, stmts, i) ==
    IF i > Len(stmts) \/ b.panic THEN b
    ELSE compile_stmts(compile_stmt(b, program.stmts[stmts[i]]), stmts, i + 1)
\* Expr::Block: the tail expression is compiled with the no_load of the block
compile_block(b, tail_expr, no_load) ==
    IF tail_expr # 0 THEN compile_expr_with_args(b, tail_expr, no_load) ELSE None(b)

\* Expr::If: then_block, else_block and merge_block are created in this
\* order; ifs records the merge block of every if compiled
jump_from(r, merge_block) ==
    jump(r.b, merge_block, IF r.v = NoValue THEN <<>> ELSE <<r.v>>)
if_result(b, merge_block) ==
    IF b.blocks[merge_block] # <<>> THEN With(b, <<"bp", merge_block, 1>>) ELSE None(b)
if_merge(b, expr, merge_block) ==
    IF b.panic THEN None(b)
    ELSE if_result([switch_to_block(b, merge_block) EXCEPT
                      !.ifs = Append(@, [expr |-> expr, merge_block |-> merge_block])],
                   merge_block)
if_else(b, expr, merge_block) ==
    if_merge(jump_from(IF GE(expr).c = 0 THEN None(b) ELSE compile_expr(b, GE(expr).c),
                       merge_block),
             expr, merge_block)
if_then(b, expr, merge_block) ==
    if_else(switch_to_block(jump_from(compile_expr(switch_to_block(b, merge_block - 2),
                                                   GE(expr).b),
                                      merge_block),
                            merge_block - 1),
            expr, merge_block)
if_blocks(b, return_ty) ==
    create_block(create_block(create_block(b, <<>>), <<>>),
                 IF return_ty # NoType THEN <<return_ty>> ELSE <<>>)
compile_if(condition, expr) ==
    IF condition.v = NoValue THEN None(Unwound(condition.b))
    ELSE if_then(Emit(if_blocks(condition.b, into_real_type(GTy(expr))),
                      Ins("brif", <<condition.v>>, NoType,
                          <<Len(condition.b.blocks) + 1, Len(condition.b.blocks) + 2>>)),
                 expr, Len(condition.b.blocks) + 3)

\* Expr::While: header_block, body_block and exit_block are created in this
\* order; the loop jumps to the body when there is no condition or the
\* condition has no value
while_exit(b, header_block) ==
    None(switch_to_block(jump(b, header_block, <<>>), header_block + 2))
while_body(b, expr, header_block) ==
    while_exit(compile_expr(switch_to_block(b, header_block + 1), GE(expr).b).b,
               header_block)
while_condition(condition, expr, header_block) ==
    while_body(IF condition.v # NoValue
               THEN Emit(condition.b, Ins("brif", <<condition.v>>, NoType,
                                          <<header_block + 1, header_block + 2>>))
               ELSE jump(condition.b, header_block + 1, <<>>),
               expr, header_block)
while_header(b, expr, header_block) ==
    while_condition(IF GE(expr).a = 0 THEN None(b) ELSE compile_expr(b, GE(expr).a),
                    expr, header_block)
compile_while(b, expr) ==
    while_header(switch_to_block(jump(create_block(create_block(create_block(b, <<>>),
                                                                <<>>), <<>>),
                                      Len(b.blocks) + 1, <<>>),
                                 Len(b.blocks) + 1),
                 expr, Len(b.blocks) + 1)

\* Expr::Local: the slot of the local, or what it holds
compile_local(b, local_def, ty, no_load) ==
    IF b.locals[local_def] = NoValue THEN None(b)
    ELSE IF no_load \/ is_aggregate(ty) THEN With(b, b.locals[local_def])
    ELSE IF into_real_type(ty) = NoType THEN None(Unwound(b))
    ELSE Some(load(b, into_real_type(ty), "trusted", b.locals[local_def], 0))

\* Expr::Param { idx }
compile_param(b, idx) ==
    IF b.params[idx] = 0 THEN None(b) ELSE [b |-> b, v |-> use_var(b, b.params[idx])]

\* Expr::Global, and Expr::Path into a module: the address of the function,
\* or the data of the global (loaded unless it is kept behind a pointer)
func_addr(b, target) == Some(Emit(b, Ins("func_addr", <<>>, PointerType, <<target>>)))
global_loaded(b, global_ty) ==
    IF is_pointer_type(global_ty) THEN Some(b)
    ELSE IF into_real_type(global_ty) = NoType THEN None(Unwound(b))
    ELSE Some(load(b, into_real_type(global_ty), "trusted", Result(b, 0), 0))
compile_global_ref(b, fqn) ==
    IF IsFunctionSig(fqn) THEN func_addr(get_local_func(b, fqn), <<"fqn", fqn>>)
    ELSE global_loaded(Emit(compile_global(b, fqn),
                            Ins("symbol_value", <<>>, PointerType, <<<<"fqn", fqn>>>>)),
                       GlobalSig(fqn).ty)

\* Expr::Path on a value: the field of a struct
path_field(struct_addr, offset, field_ty, no_load) ==
    IF struct_addr.v = NoValue THEN struct_addr
    ELSE IF no_load \/ is_aggregate(field_ty)
    THEN Some(Emit(iconst(struct_addr.b, PointerType, offset),
                   Ins("iadd", <<struct_addr.v, Result(struct_addr.b, 1)>>, PointerType,
                       <<>>)))
    ELSE Some(load(struct_addr.b, into_real_type(field_ty), "trusted", struct_addr.v, offset))
compile_path(b, expr, previous, no_load) ==
    IF GE(previous).k = "Module" THEN compile_global_ref(b, GE(expr).b)
    ELSE IF into_real_type(GTy(expr)) = NoType THEN None(b)
    ELSE IF GTy(previous)[1] # "Struct" THEN None(Unwound(b))
    ELSE IF field_idx(GTy(previous), GE(expr).vs[1]) = 0 THEN None(Unwound(b))
    ELSE path_field(compile_expr_with_args(b, previous, TRUE),
                    GTy(previous)[3][field_idx(GTy(previous), GE(expr).vs[1])],
                    GTy(expr), no_load)

\* Expr::StructLiteral
compile_struct(b, expr) ==
    IF GTy(expr)[1] # "Struct" THEN None(Unwound(b))
    ELSE With(store_struct_fields(stack_addr(b, GTy(expr)[4]), GTy(expr), GE(expr).ss,
                                  Len(b.slots) + 1, Result(b, 1), 0, 1, Len(GE(expr).ss)),
              Result(b, 1))

\* FunctionCompiler::compile_expr_with_args
compile_expr_with_args(b, expr, no_load) ==
    IF b.panic THEN None(b)
    ELSE
    CASE GE(expr).k \in {"Missing", "Module"} -> None(Unwound(b))
      [] GE(expr).k = "IntLiteral" -> int_literal(b, NumberType(GTy(expr)), GE(expr).n)
      [] GE(expr).k = "FloatLiteral" -> float_literal(b, NumberType(GTy(expr)))
      [] GE(expr).k = "BoolLiteral" -> Some(iconst(b, "i8", GE(expr).n))
      [] GE(expr).k = "StringLiteral" -> string_literal(b, GE(expr).ss)
      [] GE(expr).k = "ArrayLiteral" -> compile_array(b, expr)
      [] GE(expr).k = "Index" -> compile_index(b, expr, no_load)
      [] GE(expr).k = "Cast" ->
           compile_cast(compile_expr(b, GE(expr).a), into_number_type(GTy(GE(expr).a)),
                        into_number_type(GTy(expr)))
      [] GE(expr).k = "Ref" -> compile_ref(b, GE(expr).a)
      [] GE(expr).k = "Deref" ->
           compile_deref(compile_expr_with_args(b, GE(expr).a, no_load), GTy(expr), no_load)
      [] GE(expr).k = "Binary" -> compile_binary(compile_expr(b, GE(expr).a), expr)
      [] GE(expr).k = "Unary" -> compile_unary(compile_expr(b, GE(expr).a), GE(expr).vs[1])
      [] GE(expr).k = "Call" -> compile_call(b, GE(expr).a, GE(expr).ss)
      [] GE(expr).k = "Block" ->
           compile_block(compile_stmts(b, GE(expr).ss, 1), GE(expr).a, no_load)
      [] GE(expr).k = "If" -> compile_if(compile_expr(b, GE(expr).a), expr)
      [] GE(expr).k = "While" -> compile_while(b, expr)
      [] GE(expr).k = "Local" ->
           compile_local(b, GE(expr).a, program.local_tys[GE(expr).a], no_load)
      [] GE(expr).k = "Param" -> compile_param(b, GE(expr).a)
      [] GE(expr).k = "Global" -> compile_global_ref(b, GE(expr).a)
      [] GE(expr).k = "Path" -> compile_path(b, expr, GE(expr).a, no_load)
      [] GE(expr).k = "Lambda" ->
           func_addr(lambda_to_local_func(b, expr, GE(expr).a), <<"lambda", GE(expr).a>>)
      [] GE(expr).k = "StructLiteral" -> compile_struct(b, expr)
      [] GE(expr).k = "PrimitiveTy" -> None(b)

\* the variable registered under the backend index
RegisteredAtNewIdx(b, idx, var, new_idx_to_old_idx) ==
    IF idx <= Len(b.params) THEN [b EXCEPT !.params[idx] = var]
    ELSE [b EXCEPT !.dest_param = var]
\* one round of the loop over signature.params: idx is the backend index,
\* var the Variable generated for it
registered(b, idx, var, new_idx_to_old_idx) ==
    IF idx <= Len(new_idx_to_old_idx)
    THEN [b EXCEPT !.params[new_idx_to_old_idx[idx]] = var]
    ELSE IF b.dest_param # 0 THEN Unwound(b)
    ELSE [b EXCEPT !.dest_param = var]
copied(b, var, value, size) ==
    def_var(call_memcpy(stack_addr(b, size), <<"v", Len(b.insts) + 1>>, value, size),
            var, <<"v", Len(b.insts) + 1>>)
bound(b, idx, var, new_idx_to_old_idx, param_tys) ==
    IF idx > Len(new_idx_to_old_idx) THEN def_var(b, var, <<"bp", 1, idx>>)
    ELSE IF is_aggregate(param_tys[new_idx_to_old_idx[idx]])
    THEN copied(b, var, <<"bp", 1, idx>>,
                get_size_in_bytes(param_tys[new_idx_to_old_idx[idx]]))
    ELSE def_var(b, var, <<"bp", 1, idx>>)
RECURSIVE bind_params(_, _, _, _)
bind_params(b, idx, signature, param_tys) ==
    IF idx > Len(signature.params) \/ b.panic THEN b
    ELSE bind_params(bound(registered(new_var(b), idx, Len(b.vars) + 1,
                                      signature.new_idx_to_old_idx),
                           idx, Len(b.vars) + 1, signature.new_idx_to_old_idx, param_tys),
                     idx + 1, signature, param_tys)

\* the match on compile_expr(function_body)
returned_cast(r) == return_(r.b, <<r.v>>)
returned(r, return_ty, body_ty) ==
    IF r.v = NoValue THEN return_(r.b, <<>>)
    ELSE IF is_aggregate(return_ty)
    THEN IF r.b.dest_param = 0 THEN Unwound(r.b)
         ELSE return_(call_memcpy(r.b, use_var(r.b, r.b.dest_param), r.v,
                                  get_size_in_bytes(return_ty)),
                      <<use_var(r.b, r.b.dest_param)>>)
    ELSE IF into_number_type(return_ty) # NoType
    THEN IF into_number_type(body_ty) = NoType THEN Unwound(r.b)
         ELSE returned_cast(cast(r.b, r.v, into_number_type(body_ty),
                                 into_number_type(return_ty)))
    ELSE return_(r.b, <<r.v>>)

\* FunctionCompiler::finish for the function fqn
entry_block(signature, param_tys) ==
    switch_to_block(create_block(NewBuilder(param_tys), signature.params), 1)
finish(fqn) ==
    returned(compile_expr(bind_params(entry_block(SignatureOf(fqn), Func(fqn).param_tys),
                                      1, SignatureOf(fqn), Func(fqn).param_tys),
                          Func(fqn).body),
             Func(fqn).return_ty, GTy(Func(fqn).body))

\* the programs handed to the back end:
\*   g :: (p1: decl[1], ..) -> ret { body }    main :: () -> ret or void { g(a1, ..) }
\* body is a value of type ret, the parameter i, an if over them, a local
\* that holds the value (also after it was assigned the value again), the
\* element `p[1]`, the value after a loop, `p + 7`, or a global that holds
\* the value; main calls g by its name, through an immutable local `f :: g`,
\* or calls a lambda of g's type
ParamTypes == {I32, TVoid, Array3, Array0}
ReturnTypes == {I32, TVoid, Array3, Array2, Array0}
MaxDeclared == 2
ValueOf(T) ==
    CASE T = I32 -> 2 [] T = I64 -> 3 [] T = Array3 -> 4 [] T = Array2 -> 5
      [] T = Array0 -> 25 [] OTHER -> 6
ShapeBody(shape) ==
    CASE shape = "value" -> 0 [] shape = "param" -> 7 [] shape = "if" -> 8
      [] shape = "if_param" -> 9 [] shape = "if_no_else" -> 10 [] shape = "local" -> 16
      [] shape = "index" -> 18 [] shape = "assign" -> 20 [] shape = "while" -> 22
      [] shape = "binary" -> 23 [] shape = "global" -> 24
Program(decl, ret, shape, i, tail, via) ==
    [exprs |-> <<BoolLiteral, IntLiteral(Num(7)), IntLiteral(Num(9)),
                 ArrayLiteral(<<2, 2, 2>>), ArrayLiteral(<<3, 3>>), Block(<<>>, 0),
                 ParamRef(i), If(1, ValueOf(ret), ValueOf(ret)), If(1, 7, ValueOf(ret)),
                 If(1, 6, 0),
                 CASE via = "local" -> Local(1) [] via = "lambda" -> Lambda(1)
                   [] OTHER -> GlobalPath(2),
                 CallWith(11, [k \in 1..Len(decl) |-> ValueOf(decl[k])]),
                 IF via = "local"
                 THEN (IF tail THEN Block(<<2>>, 12) ELSE Block(<<2, 1>>, 0))
                 ELSE (IF tail THEN Block(<<>>, 12) ELSE Block(<<1>>, 0)),
                 GlobalPath(2), Local(2), Block(<<3>>, 15), IntLiteral(Num(1)),
                 Index(7, 17), Local(2), Block(<<3, 4>>, 15), While(1, 6),
                 Block(<<5>>, ValueOf(ret)), BinaryOf(7, 2, "Add"), GlobalPath(3),
                 ArrayLiteral(<<>>)>>,
     stmts |-> <<SExpr(12), SLocalDef(1), SLocalDef(2), SAssign(19, ValueOf(ret), FALSE),
                 SExpr(21)>>,
     locals |-> <<ImmutableDef(0, 14), LocalDef(0, ValueOf(ret))>>,
     local_tys |-> <<TFn(decl, ret), ret>>,
     globals |-> <<[ty |-> ret, value |-> ValueOf(ret)]>>,
     tys |-> <<TBool, I32, I64, Array3, Array2, TVoid,
               IF i <= Len(decl) THEN decl[i] ELSE ret, ret, ret, TVoid, TFn(decl, ret), ret,
               IF tail THEN ret ELSE TVoid,
               TFn(decl, ret), ret, ret, USize, I32, ret, ret, TVoid, ret, I32, ret,
               Array0>>,
     funcs |-> <<[param_tys |-> <<>>, return_ty |-> IF tail THEN ret ELSE TVoid,
                  body |-> 13],
                 [param_tys |-> decl, return_ty |-> ret,
                  body |-> IF shape = "value" THEN ValueOf(ret) ELSE ShapeBody(shape)]>>,
     shape |-> shape, via |-> via]
Declarations == UNION {[1..n -> ParamTypes] : n \in 0..MaxDeclared}
ShapesOf(decl, ret) ==
    {<<s, 1>> : s \in {"value", "if", "local", "assign", "while"}}
    \cup {<<s, i>> : s \in {"param", "if_param"}, i \in {k \in 1..Len(decl) : decl[k] = ret}}
    \cup {<<"index", i>> : i \in {k \in 1..Len(decl) : decl[k] = Array3 /\ ret = I32}}
    \cup {<<"binary", i>> : i \in {k \in 1..Len(decl) : decl[k] = ret /\ ret = I32}}
    \cup (IF ret = TVoid THEN {<<"if_no_else", 1>>} ELSE {<<"global", 1>>})
\* g is called through a local or replaced by a lambda where its body is a value
ViasOf(shape) == IF shape = "value" THEN {"global", "local", "lambda"} ELSE {"global"}
ProgramsOf(decl, ret) ==
    {Program(decl, ret, si[1], si[2], tail, via) :
        si \in ShapesOf(decl, ret), tail \in BOOLEAN, via \in {"global", "local", "lambda"}}
Programs ==
    {p \in UNION {ProgramsOf(d[1], d[2]) : d \in Declarations \X ReturnTypes} :
        p.via \in ViasOf(p.shape)}
NoProgram == [exprs |-> <<>>, stmts |-> <<>>, locals |-> <<>>, local_tys |-> <<>>,
              globals |-> <<>>, tys |-> <<>>, funcs |-> <<>>, shape |-> "", via |-> ""]
NoUnit == [NewBuilder(<<>>) EXCEPT !.cur = 0]

(***************************************************************************)
(* The typed views of the syntax tree (crates/ast/src/lib.rs).  A syntax   *)
(* node has a kind and its children in source order; a child is a node or  *)
(* a token and has a kind.  An accessor returns the position of the child  *)
(* it found, 0 for None.                                                   *)
(***************************************************************************)
ChildNode(kind) == [node |-> TRUE, kind |-> kind]
ChildToken(kind) == [node |-> FALSE, kind |-> kind]
\* the NodeKinds Expr::cast accepts, the TokenKinds BinaryOp::cast accepts
ExprKinds == {"CastExpr", "RefExpr", "DerefExpr", "BinaryExpr", "UnaryExpr", "IntLiteral",
              "BoolLiteral", "StringLiteral", "Array", "IndexExpr", "VarRef", "Call",
              "Block", "IfExpr", "WhileExpr", "Distinct", "Lambda"}
BinaryOpKinds == {"Plus", "Hyphen", "Asterisk", "Slash", "Less", "Greater", "LessEquals",
                  "GreaterEquals", "DoubleEquals", "BangEquals", "DoubleAnd", "DoublePipe"}
\* Child::cast(n, tree) for the view named child
cast_node(parent, i, child) ==
    IF child = "Expr" THEN parent.children[i].kind \in ExprKinds
    ELSE parent.children[i].kind = child
cast_token(parent, i, child) ==
    IF child = "BinaryOp" THEN parent.children[i].kind \in BinaryOpKinds
    ELSE parent.children[i].kind = child
\* SyntaxNode::child_nodes / child_tokens: the positions, in source order
child_nodes(parent) ==
    SelectSeq([i \in 1..Len(parent.children) |-> i], LAMBDA i : parent.children[i].node)
child_tokens(parent) ==
    SelectSeq([i \in 1..Len(parent.children) |-> i], LAMBDA i : ~parent.children[i].node)
\* every child node, cast or not
ChildNodesUncast(parent, child) == child_nodes(parent)
\* nodes(parent): child_nodes().filter_map(Child::cast)
nodes(parent, child) ==
    SelectSeq(child_nodes(parent), LAMBDA i : cast_node(parent, i, child))
\* Iterator::nth(n), n counted from 0
nth(iter, n) == IF n + 1 <= Len(iter) THEN iter[n + 1] ELSE 0
\* Iterator::find_map over the positions from k on
RECURSIVE find_map_node(_, _, _, _)
find_map_node(parent, iter, k, child) ==
    IF k > Len(iter) THEN 0
    ELSE IF cast_node(parent, iter[k], child) THEN iter[k]
    ELSE find_map_node(parent, iter, k + 1, child)
RECURSIVE find_map_token(_, _, _, _)
find_map_token(parent, iter, k, child) ==
    IF k > Len(iter) THEN 0
    ELSE IF cast_token(parent, iter[k], child) THEN iter[k]
    ELSE find_map_token(parent, iter, k + 1, child)
\* node(parent) and token(parent)
node(parent, child) == find_map_node(parent, child_nodes(parent), 1, child)
token(parent, child) == find_map_token(parent, child_tokens(parent), 1, child)

\* BinaryExpr
lhs(parent) == node(parent, "Expr")
rhs(parent) == nth(nodes(parent, "Expr"), 1)
op_(parent) == token(parent, "BinaryOp")
\* IfExpr
condition(parent) == node(parent, "Expr")
body(parent) == nth(nodes(parent, "Expr"), 1)
else_branch(parent) == node(parent, "ElseBranch")

\* the nodes the views are tried on: a BinaryExpr or an IfExpr with up to
\* MaxChildren children (operands may be missing after a syntax error)
MaxChildren == 4
Children ==
    {ChildNode(k) : k \in {"VarRef", "IntLiteral", "Block", "ElseBranch", "Error"}}
    \cup {ChildToken(k) : k \in {"Hyphen", "DoublePipe", "Whitespace"}}
SyntaxNodes ==
    {[kind |-> k, children |-> cs] :
        k \in {"BinaryExpr", "IfExpr"},
        cs \in UNION {[1..n -> Children] : n \in 0..MaxChildren}}
NoNode == [kind |-> "", children |-> <<>>]
NoView == [of |-> "", first |-> 0, second |-> 0, other |-> 0]

(***************************************************************************)
(* The scheduler of InferenceCtx::finish: a topological sort of the        *)
(* Inferrables whose edges are the dependencies infer_expr reports.        *)
(***************************************************************************)
NoProbe == [e |-> 0, ty |-> NoTy, before |-> <<>>, once |-> <<>>, twice |-> <<>>,
            dead |-> FALSE]
HistInit == [weakened |-> FALSE, rule_runs |-> [e \in 1..NExprs |-> 0], reruns |-> {},
             err_at |-> 0, reinferred |-> {}, cur |-> 0, cascade |-> {},
             log |-> <<>>, mismatch |-> <<>>, unbounded |-> 0, pushes |-> {}]

\* no file at all
NoBodies == Bodies(<<>>, <<>>, <<>>, <<>>, <<>>, Named("NoBodies"))
\* the inference starts on one of the worlds, with empty tables
Begin(worlds) ==
    /\ world_bodies \in worlds
    /\ hash_order \in HashOrders
    /\ expr_tys = [e \in 1..NExprs |-> NoTy]
    /\ local_tys = [l \in 1..NLocals |-> NoTy]
    /\ meta_tys = [e \in 1..NExprs |-> NoTy]
    /\ signatures = [g \in 1..NGlobals |-> NoTy]
    /\ all_inferred = {}
    /\ to_infer = [nodes |-> {InfGlobal(g) : g \in 1..NGlobals},
                   deps |-> [i \in Inferrables |-> {}]]
    /\ inferred_stmts = {}
    /\ local_usages = [l \in 1..NLocals |-> {}]
    /\ diagnostics = <<>>
    /\ visits = [i \in Inferrables |-> 0]
    /\ anchored = {}
    /\ last = [kind |-> "Init", item |-> <<>>, outcome |-> "ok", deps |-> {}]
    /\ hist = HistInit
    /\ probe = NoProbe

\* the back end has nothing to compile
BackendIdle ==
    /\ program = NoProgram
    /\ functions_to_compile = <<>>
    /\ functions = {}
    /\ compiled = <<>>
    /\ globals = <<>>
    /\ lambdas_to_compile = <<>>

\* no syntax node is looked at
FrontendIdle ==
    /\ syntax_node = NoNode
    /\ view = NoView

Init == Begin(Worlds) /\ BackendIdle /\ FrontendIdle

\* the scheduler stopped: a panic unwound it or a callee never returned
Stuck == last.outcome \in {"panic", "hang", "overrun"} \/ probe.e # 0

\* an Inferrable is ready when every dependency it reported has a signature
Ready(i) == i \in to_infer.nodes /\ \A d \in to_infer.deps[i] : signatures[d[2]] # NoTy
Leaves == {i \in to_infer.nodes : Ready(i)}
\* the scheduler can drive i / can break a cycle at g
CanDrive(i) == ~Stuck /\ i \in Leaves /\ visits[i] < MaxVisits
CanBreak(g) ==
    /\ ~Stuck
    /\ Leaves = {}
    /\ InfGlobal(g) \in to_infer.nodes
    /\ signatures[g] = NoTy
    /\ \E i \in to_infer.nodes : InfGlobal(g) \in to_infer.deps[i]

\* the GlobalInferenceCtx the scheduler builds for one Inferrable
NewCtx ==
    [expr_tys |-> expr_tys, local_tys |-> local_tys, meta_tys |-> meta_tys,
     local_usages |-> [l \in 1..NLocals |-> {}], inferred_stmts |-> inferred_stmts,
     diagnostics |-> diagnostics, queued |-> {}, panic |-> FALSE, overrun |-> FALSE,
     hang |-> FALSE, h |-> [hist EXCEPT !.err_at = 0, !.cur = 0], param_tys |-> <<>>,
     all_inferred |-> all_inferred, signatures |-> signatures,
     currently_inferring |-> <<>>, visit |-> 0, err |-> <<>>]

Outcome(r) ==
    IF r.c.panic THEN "panic" ELSE IF r.c.hang THEN "hang"
    ELSE IF r.c.overrun THEN "overrun" ELSE IF r.err # <<>> THEN "err" ELSE "ok"

\* what a drive of Inferrable i leaves behind, r being finish_body's result
Settle(i, r) ==
    LET o == Outcome(r)
        queued == {InfLambda(l) : l \in r.c.queued}
    IN
    /\ expr_tys' = r.c.expr_tys
    /\ local_tys' = r.c.local_tys
    /\ meta_tys' = r.c.meta_tys
    /\ inferred_stmts' = r.c.inferred_stmts
    /\ local_usages' = r.c.local_usages
    /\ diagnostics' = r.c.diagnostics
    /\ hist' = r.c.h
    /\ visits' = [visits EXCEPT ![i] = @ + 1]
    /\ last' = [kind |-> "Drive", item |-> i, outcome |-> o,
                deps |-> {r.err[k] : k \in 1..Len(r.err)}]
    /\ signatures' = IF o = "ok" /\ i[1] = "Global"
                     THEN [signatures EXCEPT ![i[2]] = r.ty] ELSE signatures
    /\ all_inferred' = IF o = "ok" THEN all_inferred \cup {i} ELSE all_inferred
    /\ to_infer' = [nodes |-> (IF o = "ok" THEN to_infer.nodes \ {i} ELSE to_infer.nodes)
                               \cup queued,
                    deps |-> [to_infer.deps EXCEPT
                                ![i] = {r.err[k] : k \in 1..Len(r.err)}]]
    /\ UNCHANGED <<world_bodies, hash_order, anchored, probe>>
    /\ UNCHANGED backend
    /\ UNCHANGED frontend

\* the scheduler drives the global g
DriveGlobal(g) ==
    /\ CanDrive(InfGlobal(g))
    /\ LET gl == world_bodies.globals[g]
           new == [NewCtx EXCEPT !.currently_inferring = InfGlobal(g),
                                 !.visit = visits[InfGlobal(g)]]
       IN Settle(InfGlobal(g), GlobalBody(new, g, signatures, all_inferred))

\* the ParamTys of the function type recorded for the lambda expression
ParamTys(l) ==
    LET expr == CHOOSE e \in 1..NExprs : E(e).k = "Lambda" /\ E(e).a = l IN
    IF IsFunction(expr_tys[expr]) THEN expr_tys[expr][3] ELSE <<>>

\* the scheduler drives the body of the lambda l
DriveLambda(l) ==
    /\ CanDrive(InfLambda(l))
    /\ LET lam == world_bodies.lambdas[l]
           return_ty == IF lam.return_ty # 0 THEN meta_tys[lam.return_ty] ELSE TVoid
       IN Settle(InfLambda(l), FinishBody([NewCtx EXCEPT !.param_tys = ParamTys(l),
                                                         !.currently_inferring = InfLambda(l),
                                                         !.visit = visits[InfLambda(l)]],
                                          lam.body, return_ty, FALSE,
                                          signatures, all_inferred))

\* all remaining items wait on each other: one global that is waited on
\* gets NotYetResolved as its signature
BreakCycle(g) ==
    /\ CanBreak(g)
    /\ signatures' = [signatures EXCEPT ![g] = TNotYetResolved]
    /\ anchored' = anchored \cup {InfGlobal(g)}
    /\ last' = [kind |-> "BreakCycle", item |-> InfGlobal(g), outcome |-> "ok", deps |-> {}]
    /\ UNCHANGED <<world_bodies, hash_order, expr_tys, local_tys, meta_tys, all_inferred,
                   to_infer, inferred_stmts, local_usages, diagnostics, visits, hist, probe>>
    /\ UNCHANGED backend
    /\ UNCHANGED frontend

Next ==
    \/ \E g \in 1..NGlobals : DriveGlobal(g)
    \/ \E l \in 1..NLambdas : DriveLambda(l)
    \/ \E g \in 1..NGlobals : BreakCycle(g)

Spec == Init /\ [][Next]_vars

(***************************************************************************)
(* replace_weak_tys(e, ty) called twice in a row in the context the last   *)
(* drive left behind.                                                      *)
(***************************************************************************)
ProbeTys == {I64, I32, U8, F64, TUInt(0), TIInt(0), TFloat(0), TSlice(I64)}

Tables(c) == <<c.expr_tys, c.local_tys>>

\* the tables before, after the first and after the second call;
\* both is <<ctx after the first call, ctx after the second>>
Probed(e, ty, c0, both) ==
    /\ probe' = [e |-> e, ty |-> ty, before |-> Tables(c0), once |-> Tables(both[1]),
                 twice |-> Tables(both[2]), dead |-> Dead(both[1]) \/ Dead(both[2])]
    /\ expr_tys' = both[2].expr_tys
    /\ local_tys' = both[2].local_tys
    /\ local_usages' = both[2].local_usages
    /\ diagnostics' = both[2].diagnostics
    /\ hist' = both[2].h

ReplaceAgain(e, ty, c0) == Probed(e, ty, c0, Invoke(<<"replace_twice", c0, e, ty>>))

ReplaceTwice(e, ty) ==
    /\ last.kind = "Drive"
    /\ ~Stuck
    /\ expr_tys[e] # NoTy
    /\ ReplaceAgain(e, ty, [NewCtx EXCEPT !.local_usages = local_usages])
    /\ UNCHANGED <<world_bodies, hash_order, meta_tys, signatures, all_inferred, to_infer,
                   inferred_stmts, visits, anchored, last>>
    /\ UNCHANGED backend
    /\ UNCHANGED frontend

NextProbe ==
    \/ Next
    \/ \E e \in 1..NExprs : \E ty \in ProbeTys : ReplaceTwice(e, ty)

ProbeSpec == Init /\ [][NextProbe]_vars

(***************************************************************************)
(* The back end: the functions of functions_to_compile are compiled one    *)
(* after another, starting from the entry point main.                      *)
(***************************************************************************)
inference == <<world_bodies, hash_order, expr_tys, local_tys, meta_tys, signatures,
               all_inferred, to_infer, inferred_stmts, local_usages, diagnostics,
               visits, anchored, last, hist, probe>>
Main == 1
GenInit ==
    /\ Begin({NoBodies})
    /\ program \in Programs
    /\ functions_to_compile = <<Main>>
    /\ functions = {Main}
    /\ globals = <<>>
    /\ lambdas_to_compile = <<>>
    /\ compiled = [fqn \in 1..Len(program.funcs) |-> NoUnit]
    /\ FrontendIdle

\* get_func_id declares and queues the functions asked for the first time;
\* the data objects and the lambdas of the unit stay with the module
Finished(fqn, unit) ==
    /\ compiled' = [compiled EXCEPT ![fqn] = unit]
    /\ globals' = unit.globals
    /\ lambdas_to_compile' = lambdas_to_compile \o unit.lambdas_to_compile
    /\ functions' = functions \cup {unit.asked[k] : k \in 1..Len(unit.asked)}
    /\ functions_to_compile' =
          Tail(functions_to_compile) \o SelectSeq(unit.asked, LAMBDA f : f \notin functions)

CompileFunction ==
    /\ functions_to_compile # <<>>
    /\ Finished(Head(functions_to_compile), finish(Head(functions_to_compile)))
    /\ UNCHANGED program
    /\ UNCHANGED inference
    /\ UNCHANGED frontend

GenNext == CompileFunction

GenSpec == GenInit /\ [][GenNext]_vars

(***************************************************************************)
(* The typed views applied to one syntax node.                             *)
(***************************************************************************)
AstInit ==
    /\ Begin({NoBodies})
    /\ BackendIdle
    /\ syntax_node \in SyntaxNodes
    /\ view = NoView

\* BinaryExpr::cast, then lhs(), rhs() and op()
ViewBinaryExpr ==
    /\ view = NoView
    /\ syntax_node.kind = "BinaryExpr"
    /\ view' = [of |-> "BinaryExpr", first |-> lhs(syntax_node),
                second |-> rhs(syntax_node), other |-> op_(syntax_node)]
    /\ UNCHANGED <<syntax_node, inference, backend>>

\* IfExpr::cast, then condition(), body() and else_branch()
ViewIfExpr ==
    /\ view = NoView
    /\ syntax_node.kind = "IfExpr"
    /\ view' = [of |-> "IfExpr", first |-> condition(syntax_node),
                second |-> body(syntax_node), other |-> else_branch(syntax_node)]
    /\ UNCHANGED <<syntax_node, inference, backend>>

AstNext == ViewBinaryExpr \/ ViewIfExpr

AstSpec == AstInit /\ [][AstNext]_vars

TypeOK ==
    /\ all_inferred \subseteq Inferrables
    /\ to_infer.nodes \subseteq Inferrables

(***************************************************************************)
(* Vocabulary of the properties.                                           *)
(***************************************************************************)
Done == to_infer.nodes = {}
WorldIs(name) == world_bodies.tag.name = name
Body(i) == IF i[1] = "Global" THEN world_bodies.globals[i[2]].body
           ELSE world_bodies.lambdas[i[2]].body
ExprsIn(order) == {order[j][2] : j \in {k \in 1..Len(order) : order[k][1] = "E"}}
\* the expressions one drive of the Inferrable i walks
ExprsOf(i) == ExprsIn(ExprOrder(Body(i)))
\* a reference to a global: LocalGlobal, or Member on an imported file
IsRef(e) == \/ E(e).k = "LocalGlobal"
            \/ E(e).k = "Member" /\ E(e).b # 0 /\ E(E(e).a).k = "Import"
Target(e) == IF E(e).k = "LocalGlobal" THEN E(e).a ELSE E(e).b
RefsOf(i) == {e \in ExprsOf(i) : IsRef(e)}
\* the expressions that stand for the type of a local, of a parameter, of
\* a function result, of a global, of a cast or of a struct literal
Annotations ==
    ({L(l).ty : l \in 1..NLocals}
     \cup {world_bodies.lambdas[l].return_ty : l \in 1..NLambdas}
     \cup UNION {{world_bodies.lambdas[l].params[i].ty :
                     i \in 1..Len(world_bodies.lambdas[l].params)} : l \in 1..NLambdas}
     \cup {E(e).b : e \in {d \in 1..NExprs : E(d).k = "Cast"}}
     \cup {E(e).a : e \in {d \in 1..NExprs : E(d).k = "StructLiteral"}}
     \cup {world_bodies.globals[g].ty : g \in 1..NGlobals}) \ {0}
\* the type expressions written directly inside expression e, which
\* infer_expr leaves to const_ty
TypeKids(e) ==
    LET x == E(e) IN
    (CASE x.k = "ArrayDecl" -> {x.b}
       [] x.k = "StructDecl" -> {x.ss[i] : i \in 1..Len(x.ss)}
       [] OTHER -> {}) \ {0}
\* the type expressions below a type expression that const_ty walks
TypeParts(e) ==
    LET x == E(e) IN
    (CASE x.k \in {"Ref", "Paren"} -> {x.a}
       [] OTHER -> TypeKids(e)) \ {0}
RECURSIVE TypesBelow(_, _)
TypesBelow(set, n) ==
    IF n = 0 THEN set ELSE TypesBelow(set \cup UNION {TypeParts(a) : a \in set}, n - 1)
\* the expressions in a type position: the annotations, the element types
\* of array types, the member types of struct types and the type
\* expressions they are made of
TypePositions ==
    TypesBelow(Annotations \cup UNION {TypeKids(e) : e \in 1..NExprs}, NExprs)
\* the references to globals in the type expressions the rule of
\* expression e hands to const_ty
TypeRefs(e) == {r \in TypesBelow(Kids(e) \cap TypePositions, NExprs) : IsRef(r)}
DiagsAt(ds, kind, e) == {k \in 1..Len(ds) : ds[k].kind = kind /\ ds[k].expr = e}
DiagsOf(kind) == {k \in 1..Len(diagnostics) : diagnostics[k].kind = kind}
LocalExprs(l) == {e \in 1..NExprs : E(e).k = "Local" /\ E(e).a = l}
LiteralFits(n, ty) == ~NumGt(n, get_max_int_size(ty))
JustDrove(o) == last.kind = "Drive" /\ last.outcome = o
Log == hist.log
\* two entries of the log made for the same comptime block in the same call
SameCall(a, b) ==
    /\ a.expr = b.expr /\ a.via = b.via /\ a.item = b.item /\ a.visit = b.visit
\* the last entry of the log was made by the drive that just ended
LoggedByLastDrive ==
    /\ Len(Log) > 0 /\ last.kind = "Drive"
    /\ Log[Len(Log)].item = last.item
    /\ Log[Len(Log)].visit = visits[last.item] - 1
\* the drive that just ended returned the Err of is_safe_to_compile
ErrFromComptime == LoggedByLastDrive /\ Log[Len(Log)].result = "Err"

\* C1: a local x defined from an integer literal without annotation and used
\* as the value of a local annotated with the strong integer type T has
\* local_tys[x] = T once the body is inferred, every expression naming x has
\* type T, and the only diagnostic there can be is IntTooBigForType, emitted
\* exactly when the literal does not fit T.
C1_WeakLocalTakesAnnotatedType ==
    LET t == world_bodies.tag IN
    (t.x # 0 /\ IsInt(t.T) /\ InfLambda(1) \in all_inferred) =>
        /\ local_tys[t.x] = t.T
        /\ \A e \in LocalExprs(t.x) : expr_tys[e] = t.T
        /\ \A k \in 1..Len(diagnostics) : diagnostics[k].kind = "IntTooBigForType"
        /\ (diagnostics = <<>>) <=> LiteralFits(t.n, t.T)

\* C1 as stated: the same, with no diagnostic at all.
C1_AsStatedNoDiagnostic ==
    LET t == world_bodies.tag IN
    (t.x # 0 /\ IsInt(t.T) /\ InfLambda(1) \in all_inferred) =>
        /\ local_tys[t.x] = t.T
        /\ \A e \in LocalExprs(t.x) : expr_tys[e] = t.T
        /\ diagnostics = <<>>

C1_Witness ==
    LET t == world_bodies.tag IN
    /\ WorldIs("MutualLocals") /\ t.T = I64 /\ Done
    /\ local_tys[t.x] = I64 /\ local_tys[2] = I64
    /\ hist.reinferred # {}

\* C2: when a drive of an Inferrable completes, every global its body
\* references either was in all_inferred before the drive, or had the
\* signature NotYetResolved and the drive emitted a NotYetResolved
\* diagnostic at the referencing expression.
C2_ReferencesInferredOrReported ==
    [][(last'.kind = "Drive" /\ last'.outcome = "ok" /\ last'.item \notin all_inferred) =>
         \A e \in RefsOf(last'.item) :
            \/ InfGlobal(Target(e)) \in all_inferred
            \/ /\ signatures[Target(e)] = TNotYetResolved
               /\ DiagsAt(diagnostics', "NotYetResolved", e) # {}]_vars

C2_Witness ==
    /\ JustDrove("ok")
    /\ \E e \in RefsOf(last.item) :
          /\ InfGlobal(Target(e)) \notin all_inferred
          /\ signatures[Target(e)] = TNotYetResolved
          /\ DiagsAt(diagnostics, "NotYetResolved", e) # {}

\* C3: every Inferrable reaches the Inferred state: as long as an item is
\* left in to_infer, and no drive has aborted the process with a panic, the
\* scheduler has a next step to take (an item to drive or a cycle to
\* break), so no drive fails to return and no item is left behind.
C3_SchedulerNeverLeavesAnItemBehind ==
    \/ to_infer.nodes = {} /\ all_inferred = Inferrables
    \/ last.outcome = "panic"
    \/ \E i \in Inferrables : CanDrive(i)
    \/ \E g \in 1..NGlobals : CanBreak(g)

\* C4: for a :: b; b :: a inference ends with exactly one NotYetResolved
\* diagnostic, naming a or b, and both signatures are Unknown.
C4_TwoCycleOneDiagnostic ==
    (WorldIs("Cycle2") /\ Done) =>
        /\ Cardinality(DiagsOf("NotYetResolved")) = 1
        /\ \A k \in DiagsOf("NotYetResolved") : diagnostics[k].fqn \in {1, 2}
        /\ signatures[1] = TUnknown
        /\ signatures[2] = TUnknown

C4_Witness ==
    /\ WorldIs("Cycle2") /\ Done
    /\ anchored # {}
    /\ all_inferred = {InfGlobal(1), InfGlobal(2)}
    /\ Len(diagnostics) = 1

\* the globals whose value is a function literal, and that literal's lambda
FnGlobals == {g \in 1..NGlobals : E(world_bodies.globals[g].body).k = "Lambda"}
LambdaOf(g) == E(world_bodies.globals[g].body).a
RECURSIVE Denoted(_)
\* the type a type expression written with primitive types, `^`, `[]`,
\* `[n]`, `enum` without discriminants and names of globals stands for
Denoted(e) ==
    LET x == E(e) IN
    CASE x.k = "PrimitiveTy" -> x.ty
      [] x.k = "Ref" -> TPointer(x.ty[2], Denoted(x.a))
      [] x.k = "ArrayDecl" /\ x.a = 0 -> TSlice(Denoted(x.b))
      [] x.k = "ArrayDecl" /\ E(x.a).k = "IntLiteral" -> TArray(FALSE, E(x.a).n, Denoted(x.b))
      [] x.k = "EnumDecl" -> TEnumAt(e, x.vs)
      [] x.k = "LocalGlobal" -> Denoted(world_bodies.globals[x.a].body)
      [] OTHER -> TUnknown
AnnotatedReturn(l) ==
    LET rt == world_bodies.lambdas[l].return_ty IN IF rt = 0 THEN TVoid ELSE Denoted(rt)

AnnotatedParams(l) ==
    LET ps == world_bodies.lambdas[l].params IN
    [k \in 1..Len(ps) |-> IF ps[k].varargs THEN TSlice(Denoted(ps[k].ty))
                          ELSE Denoted(ps[k].ty)]

\* C5: the signature of a global whose value is a function literal is the
\* function type of its annotations and is in signatures before the body
\* is inferred: the body is driven only once the signature is there, and
\* until it is inferred it waits in to_infer as a Lambda Inferrable.  A
\* function calling itself and two functions calling each other are
\* inferred without a NotYetResolved diagnostic and without a broken cycle.
C5_SignatureBeforeBody ==
    /\ \A g \in FnGlobals :
         LET l == InfLambda(LambdaOf(g)) IN
         /\ signatures[g] # NoTy =>
               /\ IsFunction(signatures[g])
               /\ signatures[g][2] = AnnotatedReturn(LambdaOf(g))
               /\ Len(signatures[g][3]) = Len(AnnotatedParams(LambdaOf(g)))
               /\ \A k \in 1..Len(signatures[g][3]) :
                     signatures[g][3][k].ty = AnnotatedParams(LambdaOf(g))[k]
         /\ visits[l] > 0 => signatures[g] # NoTy
         /\ visits[l] = 0 => expr_tys[Body(l)] = NoTy
         /\ (signatures[g] # NoTy /\ l \notin all_inferred) => l \in to_infer.nodes
    /\ (WorldIs("SelfRecursion") \/ WorldIs("MutualRecursion")) =>
         DiagsOf("NotYetResolved") = {} /\ anchored = {}

C5_Witness ==
    /\ WorldIs("MutualRecursion") /\ Done
    /\ all_inferred = Inferrables
    /\ \A l \in 1..NLambdas : expr_tys[Body(InfLambda(l))] = TVoid
    /\ diagnostics = <<>>

\* the descendant the walk stopped at: the expression e, or the statement
\* -e
StoppedAt(e) == IF e > 0 THEN <<"E", e>> ELSE <<"S", 0 - e>>
\* the expressions of the drive of i whose descent holds that descendant
Enclosing(i, e) ==
    {a \in ExprsOf(i) : \E j \in 1..Len(ExprOrder(a)) : ExprOrder(a)[j] = StoppedAt(e)}
Ancestors(i, e) == Enclosing(i, e) \ {e}
EarlierExprs(i, e) ==
    LET o == ExprOrder(Body(i))
        at == CHOOSE j \in 1..Len(o) : o[j] = StoppedAt(e)
    IN {o[j][2] : j \in {k \in 1..(at - 1) : o[k][1] = "E"}}
\* the references the descendant reached: the expression itself, or the
\* references in the type expressions its rule hands to const_ty
ReachedRefs(e) ==
    IF e > 0 THEN (IF IsRef(e) THEN {e} ELSE TypeRefs(e))
    ELSE {r \in TypesBelow({L(S(0 - e).a).ty} \ {0}, NExprs) : IsRef(r)}

\* C6: a drive returns Err([Global(fqn)]) exactly when infer_expr reached a
\* reference to a global without a signature (the expression whose rule
\* is running, or a reference in a type expression the rule or the
\* statement hands to const_ty); the error names that global alone, the reference and its
\* ancestors have no expr_tys entry, no diagnostic was emitted at the
\* reference, and the expressions walked before it keep their types.  A drive that returns Ok left no reference
\* untyped.  (The other Err, the one is_safe_to_compile answers for a
\* comptime block, names lambdas.)
C6_ErrExactlyAtUnsignedReference ==
    (last.kind = "Drive" /\ last.outcome \in {"ok", "err"}) =>
        LET i == last.item
            e == hist.err_at
        IN /\ ErrFromComptime =>
                last.outcome = "err" /\ \A d \in last.deps : d[1] = "Lambda"
           /\ ~ErrFromComptime => ((last.outcome = "err") <=> (e # 0))
           /\ (last.outcome = "err" /\ ~ErrFromComptime) =>
                /\ \E j \in 1..Len(ExprOrder(Body(i))) : ExprOrder(Body(i))[j] = StoppedAt(e)
                /\ \E r \in ReachedRefs(e) :
                      /\ signatures[Target(r)] = NoTy
                      /\ last.deps = {InfGlobal(Target(r))}
                      /\ expr_tys[r] = NoTy
                      /\ \A k \in 1..Len(diagnostics) : diagnostics[k].expr # r
                /\ \A a \in Enclosing(i, e) : expr_tys[a] = NoTy
                /\ \A d \in EarlierExprs(i, e) : expr_tys[d] # NoTy
           /\ last.outcome = "ok" =>
                \A r \in RefsOf(i) :
                   /\ expr_tys[r] # NoTy
                   /\ InfGlobal(Target(r)) # i => signatures[Target(r)] # NoTy

C6_Witness ==
    /\ JustDrove("err")
    /\ hist.err_at > 0 /\ IsRef(hist.err_at)
    /\ Ancestors(last.item, hist.err_at) # {}
    /\ \E d \in EarlierExprs(last.item, hist.err_at) : expr_tys[d] = TVoid

\* C7: the rule of an expression that already has an entry in expr_tys is
\* never run again, so no diagnostic is emitted twice.
C7_MemoizedRuleNeverRerun ==
    /\ hist.reruns = {}
    /\ \A j, k \in 1..Len(diagnostics) : diagnostics[j] = diagnostics[k] => j = k

\* C8: replace_weak_tys and reinfer_usages terminate: no drive runs into a
\* call chain deeper than MaxDepth, whatever the body (an assignment whose
\* value names its destination, two locals assigned from each other).
C8_ReinferenceTerminates == last.outcome # "overrun"

C8_Witness ==
    /\ WorldIs("SelfQuickAssign") /\ Done
    /\ 2 \in hist.reinferred
    /\ local_tys[1] = world_bodies.tag.T

\* C9: no write to expr_tys or local_tys replaces a strong type by a weak
\* one.
C9_NeverWeaker == ~hist.weakened

C9_Witness ==
    /\ WorldIs("MixedSigns") /\ world_bodies.tag.T = I64 /\ Done
    /\ 3 \in hist.reinferred
    /\ expr_tys[7] = I64 /\ local_tys[3] = I64

\* C10: replace_weak_tys(e, T) called a second time right after the first
\* returns and leaves expr_tys and local_tys as the first call left them.
C10_ReplaceIdempotent ==
    probe.e # 0 => ~probe.dead /\ probe.twice = probe.once

C10_Witness ==
    /\ probe.e # 0 /\ ~probe.dead
    /\ E(probe.e).k = "Local"
    /\ probe.once # probe.before
    /\ probe.once[2] # probe.before[2]

RECURSIVE Below(_, _)
Below(set, n) == IF n = 0 THEN set ELSE Below(set \cup UNION {Kids(a) : a \in set}, n - 1)
SynAncestors(e) == {a \in 1..NExprs : a # e /\ e \in Below({a}, NExprs)}
NamedByDiagnostic(e) ==
    \E k \in 1..Len(diagnostics) : diagnostics[k].expr \in {e} \cup SynAncestors(e)
NamedBy(kinds, e) ==
    \E k \in 1..Len(diagnostics) : diagnostics[k].expr = e /\ diagnostics[k].kind \in kinds

\* the target types of the casts whose operand is Unknown, and the type
\* expressions they are made of: the Cast rule returns before const_ty
SkippedCastTys ==
    TypesBelow({E(d).b : d \in {e \in 1..NExprs : /\ E(e).k = "Cast" /\ E(e).a # 0
                                                    /\ expr_tys[E(e).a] = TUnknown}} \ {0},
               NExprs)

\* the kinds of expression const_ty has an arm of its own for
TypeForms ==
    {"Missing", "Ref", "Local", "LocalGlobal", "Param", "Member", "PrimitiveTy", "ArrayDecl",
     "StructDecl", "EnumDecl", "Lambda", "Comptime", "Paren", "Block"}
\* the expressions in a type position that const_ty records in expr_tys: a
\* comptime block whose body is of type `type`, and an expression its
\* `_` arm (for a Member, its last arm) hands to infer_expr
InferredByConstTy(e) ==
    LET x == E(e) IN
    /\ e \notin SkippedCastTys
    /\ \/ x.k = "Comptime" /\ expr_tys[x.a] = TType
       \/ x.k = "Member" /\ expr_tys[x.a] \notin {NoTy, TFile, TType}
       \/ x.k \notin TypeForms
\* the locals declared without a value whose annotation was evaluated
DeclaredWithoutValue ==
    {l \in 1..NLocals : L(l).ty # 0 /\ L(l).value = 0 /\ local_tys[l] # NoTy}

IfNoElseExprs == {e \in 1..NExprs : E(e).k = "If" /\ E(e).c = 0 /\ expr_tys[e] # NoTy}

\* C19: for an if with no else branch, MissingElse is emitted exactly when
\* the body's type is none of Void, NoEval and Unknown; the type of the if
\* is Void when the body's type is NoEval and the body's type otherwise,
\* also after reinfer_expr has run over it
C19_IfWithoutElse ==
    last.outcome = "ok" =>
      \A e \in IfNoElseExprs :
         LET body_ty == expr_tys[E(e).b] IN
         /\ expr_tys[e] = IF body_ty = TNoEval THEN TVoid ELSE body_ty
         /\ Cardinality(DiagsAt(diagnostics, "MissingElse", e))
              = IF body_ty \in {TVoid, TNoEval, TUnknown} THEN 0 ELSE 1

\* `if b { x }` reported MissingElse and, after x became T, reinfer_expr
\* retyped the if to T
C19_Witness ==
    /\ WorldIs("IfLocal") /\ Done /\ last.outcome = "ok"
    /\ 6 \in IfNoElseExprs
    /\ expr_tys[6] = world_bodies.tag.T
    /\ DiagsAt(diagnostics, "MissingElse", 6) # {}
    /\ 2 \in hist.reinferred

(***************************************************************************)
(* C20: the source of an index expression.                                 *)
(***************************************************************************)
IndexExprs == {e \in 1..NExprs : E(e).k = "Index" /\ expr_tys[e] # NoTy}
IndexDiags(e) ==
    {k \in 1..Len(diagnostics) :
        /\ diagnostics[k].expr = e
        /\ diagnostics[k].kind \in {"IndexNonArray", "IndexRaw", "IndexOutOfBounds"}}
IndexKinds(e) == {diagnostics[k].kind : k \in IndexDiags(e)}
\* the index is an integer literal that is not below the size of the array
LiteralOutOfBounds(e, size) ==
    E(E(e).b).k = "IntLiteral" /\ ~NumGt(size, E(E(e).b).n)

\* C20 (as the code has it): every pointer layer is stripped from the type
\* of the source; an Array or Slice source gives the element type and no
\* IndexNonArray, an Array indexed by a literal that is not below its size
\* also gets IndexOutOfBounds; a RawSlice source gets IndexRaw and Unknown;
\* an Unknown source gets Unknown and no diagnostic; every other source
\* gets IndexNonArray and Unknown
C20_IndexSource ==
    last.outcome = "ok" =>
      \A e \in IndexExprs :
         LET src == StripPointers(expr_tys[E(e).a]) IN
         /\ Cardinality(IndexDiags(e)) <= 1
         /\ CASE IsArray(src) ->
                   /\ expr_tys[e] = src[4]
                   /\ IndexKinds(e) = IF LiteralOutOfBounds(e, src[3])
                                      THEN {"IndexOutOfBounds"} ELSE {}
              [] IsSlice(src) -> expr_tys[e] = src[2] /\ IndexKinds(e) = {}
              [] src = TRawSlice -> expr_tys[e] = TUnknown /\ IndexKinds(e) = {"IndexRaw"}
              [] src = TUnknown -> expr_tys[e] = TUnknown /\ IndexKinds(e) = {}
              [] OTHER -> expr_tys[e] = TUnknown /\ IndexKinds(e) = {"IndexNonArray"}

\* C20 as stated: Array, Slice and RawSlice sources get no index diagnostic
C20_AsStatedThreeSourcesAccepted ==
    last.outcome = "ok" =>
      \A e \in IndexExprs :
         LET src == StripPointers(expr_tys[E(e).a]) IN
         (IsArray(src) \/ IsSlice(src) \/ src = TRawSlice) => IndexDiags(e) = {}

\* a [3]i32 behind one pointer is indexed by 1: the element type, nothing
\* reported
C20_Witness ==
    /\ WorldIs("IndexParam") /\ Done /\ last.outcome = "ok"
    /\ world_bodies.tag.T = TPointer(FALSE, Array3) /\ world_bodies.tag.n = Num(1)
    /\ 4 \in IndexExprs /\ expr_tys[4] = I32 /\ IndexDiags(4) = {}

(***************************************************************************)
(* C18: assignment through a dereference.                                  *)
(***************************************************************************)
\* the inferred assignments whose destination is p^ with p a pointer
DerefAssigns ==
    {st \in 1..NStmts :
        /\ S(st).k = "Assign"
        /\ E(S(st).a).k = "Deref"
        /\ expr_tys[S(st).a] # NoTy
        /\ IsPointer(expr_tys[E(S(st).a).a])}

\* C18 as stated: an assignment to p^ is accepted only if p is a ^mut
\* pointer; through an immutable pointer it gets CannotMutate, whatever
\* kind of expression p is
C18_DerefAssignNeedsMutPointer ==
    Done =>
      \A st \in DerefAssigns :
         LET dest == S(st).a
             mutable == expr_tys[E(dest).a][2]
         IN (DiagsAt(diagnostics, "CannotMutate", dest) = {}) <=> mutable

(***************************************************************************)
(* C17: the arguments of a call.                                           *)
(***************************************************************************)
\* the typed calls of a function
CallExprs ==
    {e \in 1..NExprs :
        E(e).k = "Call" /\ expr_tys[e] # NoTy /\ IsFunction(expr_tys[E(e).a])}
\* the `expected` types of the MissingArg diagnostics of the call e, in
\* the order they were reported
MissingArgTys(e) ==
    LET ds == SelectSeq(diagnostics, LAMBDA d : d.kind = "MissingArg" /\ d.expr = e)
    IN [i \in 1..Len(ds) |-> ds[i].ty]
Max0(n) == IF n > 0 THEN n ELSE 0

\* C17: a call of a function with p non-variadic parameters of known type
\* and a arguments gets one ExtraArg per surplus argument and one
\* MissingArg per unfilled parameter, carrying that parameter's type; a
\* trailing variadic parameter never gets MissingArg and takes every
\* remaining argument that fits its element type; the call has the
\* callee's return type
C17_CallArguments ==
    last.outcome = "ok" =>
      \A e \in CallExprs :
         LET params == expr_tys[E(e).a][3]
             args == E(e).ss
             p == Cardinality({i \in 1..Len(params) : ~params[i].varargs})
             a == Len(args)
             varargs == Len(params) > p
         IN /\ expr_tys[e] = expr_tys[E(e).a][2]
            /\ MissingArgTys(e) = [i \in 1..Max0(p - a) |-> params[a + i].ty]
            /\ \A j \in 1..a :
                  Cardinality(DiagsAt(diagnostics, "ExtraArg", args[j]))
                    = IF j > p /\ ~varargs THEN 1 ELSE 0
            /\ varargs =>
                  \A j \in (p + 1)..a :
                     can_fit_into(expr_tys[args[j]], params[p + 1].ty[2])
                       => /\ expr_tys[args[j]] = params[p + 1].ty[2]
                          /\ \A k \in 1..Len(diagnostics) : diagnostics[k].expr # args[j]

\* g(1) for g :: (a : i32, b : bool, rest : ...i32): one MissingArg for b,
\* none for rest
C17_Witness ==
    /\ WorldIs("CallWorld") /\ Done /\ last.outcome = "ok"
    /\ world_bodies.tag.shape = <<2, TRUE>> /\ world_bodies.tag.n = Num(1)
    /\ \E e \in CallExprs : MissingArgTys(e) = <<TBool>> /\ expr_tys[e] = TBool

(***************************************************************************)
(* C16: the coverage of a switch over an enum.                             *)
(***************************************************************************)
\* the typed switches over an enum
SwitchExprs ==
    {e \in 1..NExprs :
        E(e).k = "Switch" /\ expr_tys[e] # NoTy /\ IsEnum(expr_tys[E(e).a])}
\* the diagnostics of one kind reported at the switch e for the variant v
VariantDiags(kind, e, v) ==
    {k \in DiagsAt(diagnostics, kind, e) : diagnostics[k].ty = v}
\* the arms of the switch e that name the variant v
ArmsNaming(e, v) == {i \in 1..Len(E(e).vs) : E(e).vs[i] = v[2]}

\* C16: without a default arm there is exactly one
\* SwitchDoesNotCoverVariant for each variant that no arm names and none
\* for a covered variant; with a default arm there is none at all; every
\* arm naming a variant that an earlier arm names gets exactly one
\* SwitchAlreadyCoversVariant
C16_SwitchCoverage ==
    last.outcome = "ok" =>
      \A e \in SwitchExprs :
         LET variants == expr_tys[E(e).a][2] IN
         \A i \in 1..Len(variants) :
            LET v == variants[i]
                named == Cardinality(ArmsNaming(e, v))
            IN /\ Cardinality(VariantDiags("SwitchDoesNotCoverVariant", e, v))
                    = IF E(e).c = 0 /\ named = 0 THEN 1 ELSE 0
               /\ Cardinality(VariantDiags("SwitchAlreadyCoversVariant", e, v))
                    = Max0(named - 1)

\* switch with the arms B, A, B, B and no default: C is reported as not
\* covered, B as already covered twice
C16_Witness ==
    /\ WorldIs("SwitchWorld") /\ Done /\ last.outcome = "ok"
    /\ world_bodies.tag.shape = <<"B", "A", "B", "B">> /\ ~world_bodies.tag.flag
    /\ \E e \in SwitchExprs :
          /\ Cardinality(VariantDiags("SwitchDoesNotCoverVariant", e, TVariantAt(1, "C", Num(2)))) = 1
          /\ Cardinality(VariantDiags("SwitchAlreadyCoversVariant", e, TVariantAt(1, "B", Num(1)))) = 2
          /\ DiagsAt(diagnostics, "SwitchDoesNotCoverVariant", e)
                = VariantDiags("SwitchDoesNotCoverVariant", e, TVariantAt(1, "C", Num(2)))

(***************************************************************************)
(* C12: no diagnostic is caused by a sub-expression that is Unknown.       *)
(***************************************************************************)
\* C12: the rule of an expression that has a direct sub-expression of type
\* Unknown adds no diagnostic (both branches of an if, binary and unary
\* operands, index sources, deref, callees and arguments, struct-literal
\* members, every use of expect_match)
C12_AsStatedNoDiagnosticBesideUnknown == hist.cascade = {}

\* E :: enum { A, B, C };  f :: (e : E) { #unwrap(<missing>, i32); }
\* the first argument is Unknown and the Directive rule reports
\* Mismatch { expected: an enum, found: Unknown } at the directive
C12_Witness ==
    /\ WorldIs("DirectiveWorld") /\ world_bodies.tag.shape = "MissingEnum"
    /\ Done /\ last.outcome = "ok"
    /\ E(5).k = "Directive" /\ E(5).ss[1] = 3
    /\ E(3).k = "Missing" /\ expr_tys[3] = TUnknown
    /\ hist.rule_runs[5] = 1
    /\ diagnostics = <<DiagTy("Mismatch", 5, TUnknown)>>
    /\ hist.cascade = {1}

(***************************************************************************)
(* C13, C14, C15: comptime blocks, is_safe_to_compile and the evaluator.   *)
(***************************************************************************)

\* C13: in const_data and in const_ty the evaluator is called for a
\* comptime block only directly after is_safe_to_compile returned Ok(true)
\* for its body; after Ok(false) it is not called and const_data yields
\* None (the array type gets ArraySizeNotInt), const_ty yields Unknown;
\* after Err(deps) it is not called and the drive ends with that Err
C13_EvalOnlyAfterSafe ==
    /\ \A i \in 1..Len(Log) :
          /\ Log[i].ev = "eval" =>
                /\ i > 1 /\ Log[i - 1].ev = "check" /\ Log[i - 1].result = "true"
                /\ SameCall(Log[i - 1], Log[i])
          /\ Log[i].ev = "check" =>
                /\ i < Len(Log) /\ SameCall(Log[i], Log[i + 1])
                /\ Log[i].result = "true" => Log[i + 1].ev = "eval"
                /\ Log[i].result = "false" =>
                      /\ Log[i + 1].ev = "ret"
                      /\ Log[i + 1].result
                           = IF Log[i].via = "const_data" THEN "None" ELSE "Unknown"
                /\ Log[i].result = "err" =>
                      /\ Log[i + 1].ev = "ret" /\ Log[i + 1].result = "Err"
                      /\ Log[i + 1].deps = Log[i].deps /\ Log[i].deps # <<>>
    /\ LoggedByLastDrive =>
          LET e == Log[Len(Log)] IN
          /\ e.result = "Err" =>
                /\ last.outcome = "err"
                /\ last.deps = {e.deps[k] : k \in 1..Len(e.deps)}
          /\ e.result = "Unknown" => meta_tys[e.expr] = TUnknown
          /\ e.result = "None" =>
                /\ DiagsAt(diagnostics, "ArraySizeNotInt", e.expr) # {}
                /\ \E a \in 1..NExprs : E(a).k = "ArrayDecl" /\ E(a).a = e.expr
                                          /\ meta_tys[a] = TUnknown

\* x : [comptime { n() }]i32 driven before the body of n: the first check
\* is answered Err(n), the drive is repeated, the second check is Ok(true),
\* the evaluator gives 3 and x is a [3]i32
C13_Witness ==
    /\ WorldIs("SizedLocal") /\ Done
    /\ Len(Log) = 4
    /\ Log[1].ev = "check" /\ Log[1].result = "err" /\ Log[2].result = "Err"
    /\ Log[3].ev = "check" /\ Log[3].result = "true"
    /\ Log[4].ev = "eval" /\ Log[4].result = "Integer" /\ Log[4].via = "const_data"
    /\ local_tys[2] = Array3

\* C14: is_safe_to_compile answers Ok(false) whenever the checked body, or
\* the body of a global or value lambda reachable from it, contains an
\* expression typed Unknown, an Expr::Missing, or a break / continue that
\* leaves what is checked
C14_UnsafeContentGivesFalse ==
    \A i \in 1..Len(Log) :
       Log[i].ev = "check" /\ (Log[i].unknown \/ Log[i].escapes) => Log[i].result = "false"

\* C15: when is_safe_to_compile answers Ok(true), every global and value
\* lambda reachable from the checked body is in all_inferred; when one of
\* them is not, the answer is an Err that contains it
C15_SafeImpliesAllInferred ==
    \A i \in 1..Len(Log) :
       Log[i].ev = "check" =>
          /\ Log[i].result = "true" => Log[i].unready = {}
          /\ Log[i].unready # {} =>
                /\ Log[i].result = "err"
                /\ \E k \in 1..Len(Log[i].deps) : Log[i].deps[k] \in Log[i].unready

(***************************************************************************)
(* Enum declarations.                                                      *)
(***************************************************************************)
\* the enum declarations const_ty has resolved to a Ty::Enum
EnumDecls == {e \in 1..NExprs : E(e).k = "EnumDecl" /\ E(e).vs # <<>> /\ meta_tys[e] # NoTy
                                   /\ IsEnum(meta_tys[e])}
\* the named variants of the declaration e, and the Ty::Variant of variant i
NamedVariants(e) == {i \in 1..Len(E(e).vs) : E(e).vs[i] # NoName}
VariantTy(e, i) == meta_tys[e][2][Cardinality({j \in NamedVariants(e) : j <= i})]
\* variant i has an explicit constant discriminant (an integer literal)
HasExplicit(e, i) == E(e).ss[i] # 0 /\ E(E(e).ss[i]).k = "IntLiteral"
Explicit(e, i) == E(E(e).ss[i]).n
\* an earlier variant has the same explicit discriminant
RepeatsEarlier(e, i) ==
    \E j \in NamedVariants(e) : j < i /\ HasExplicit(e, j) /\ Explicit(e, j) = Explicit(e, i)

\* C21: for every enum declaration const_ty resolves, (1) a variant with an
\* explicit constant discriminant no earlier variant claimed keeps that
\* value, (2) every named variant has a discriminant, (3) the discriminants
\* of the variants are pairwise distinct, (4) an explicit value that repeats
\* an earlier explicit value is reported with DiscriminantUsedAlready
C21_DiscriminantsDistinct ==
    \A e \in EnumDecls :
       /\ Len(meta_tys[e][2]) = Cardinality(NamedVariants(e))
       /\ \A i \in NamedVariants(e) :
             /\ VariantTy(e, i)[2] = E(e).vs[i]
             /\ HasExplicit(e, i) /\ ~RepeatsEarlier(e, i) => VariantTy(e, i)[3] = Explicit(e, i)
             /\ HasExplicit(e, i) /\ RepeatsEarlier(e, i) =>
                   DiagsAt(diagnostics, "DiscriminantUsedAlready", E(e).ss[i]) # {}
       /\ \A i, j \in NamedVariants(e) : i # j => VariantTy(e, i)[3] # VariantTy(e, j)[3]


(***************************************************************************)
(* Back-end lowering.                                                      *)
(***************************************************************************)
\* the functions FunctionCompiler::finish has built a unit for
Units == {fqn \in DOMAIN compiled : compiled[fqn].insts # <<>>}
Unit(fqn) == compiled[fqn]
AllCompiled == functions_to_compile = <<>> /\ program # NoProgram
InstsOf(fqn, op) == {k \in 1..Len(Unit(fqn).insts) : Unit(fqn).insts[k].op = op}
Inst(fqn, k) == Unit(fqn).insts[k]
\* the direct calls of a function by its Fqn, and the Fqn called
DirectCalls(fqn) == {k \in InstsOf(fqn, "call") : Inst(fqn, k).x[1][1] = "fqn"}
Callee(fqn, k) == Inst(fqn, k).x[1][2]
\* every call of the unit: by Fqn, of a lambda, or through a function pointer
CallSites(fqn) == InstsOf(fqn, "call") \cup InstsOf(fqn, "call_indirect")
\* the Expr::Call expressions of the program and the type of their callee
CompiledCalls == {e \in DOMAIN program.exprs : GE(e).k = "Call"}
CalleeTy(e) == GTy(GE(e).a)
CalleeSignature(e) == to_cranelift_signature(CalleeTy(e)[3], CalleeTy(e)[2])
\* the value v of the unit is the address of a stack slot of the unit that
\* has the given size and no other stack_addr
OwnSlot(fqn, v, size) ==
    /\ v[1] = "v"
    /\ Inst(fqn, v[2]).op = "stack_addr"
    /\ Unit(fqn).slots[Inst(fqn, v[2]).x[1]] = size
    /\ \A j \in InstsOf(fqn, "stack_addr") :
          Inst(fqn, j).x = Inst(fqn, v[2]).x => j = v[2]
\* the backend parameter of the unit that has no declared index
DestValue(fqn) == <<"bp", 1, Len(SignatureOf(fqn).params)>>
LastInst(fqn) == Inst(fqn, Len(Unit(fqn).insts))

\* C22: for a function returning an aggregate T every call site creates a
\* stack slot of size_of(T) bytes and passes its address as the last
\* argument; the callee binds the one backend parameter without a declared
\* index as the destination, copies size_of(T) bytes of the body's result to
\* it and returns that address; the arguments of every call agree with the
\* parameter list of the callee in number and in order.
C22_AggregateReturn ==
    /\ \A fqn \in Units : \A k \in CallSites(fqn) : \E e \in CompiledCalls :
          /\ Len(Inst(fqn, k).args) = Len(CalleeSignature(e).params)
          /\ \A i \in 1..Len(Inst(fqn, k).args) :
                TypeOfValue(Unit(fqn), Inst(fqn, k).args[i]) = CalleeSignature(e).params[i]
          /\ is_aggregate(CalleeTy(e)[2]) =>
                /\ Inst(fqn, k).args # <<>>
                /\ OwnSlot(fqn, Inst(fqn, k).args[Len(Inst(fqn, k).args)],
                           get_size_in_bytes(CalleeTy(e)[2]))
    /\ \A fqn \in Units : \A k \in DirectCalls(fqn) :
          /\ Len(Inst(fqn, k).args) = Len(SignatureOf(Callee(fqn, k)).params)
          /\ \A i \in 1..Len(Inst(fqn, k).args) :
                TypeOfValue(Unit(fqn), Inst(fqn, k).args[i])
                  = SignatureOf(Callee(fqn, k)).params[i]
          /\ is_aggregate(Func(Callee(fqn, k)).return_ty) =>
                /\ Inst(fqn, k).args # <<>>
                /\ Inst(fqn, k).args[Len(Inst(fqn, k).args)] = <<"v", k - 1>>
                /\ OwnSlot(fqn, <<"v", k - 1>>,
                           get_size_in_bytes(Func(Callee(fqn, k)).return_ty))
    /\ \A fqn \in Units : is_aggregate(Func(fqn).return_ty) =>
          /\ Len(SignatureOf(fqn).params) = Len(SignatureOf(fqn).new_idx_to_old_idx) + 1
          /\ Unit(fqn).dest_param # 0
          /\ \A i \in DOMAIN Unit(fqn).params : Unit(fqn).params[i] # Unit(fqn).dest_param
          /\ use_var(Unit(fqn), Unit(fqn).dest_param) = DestValue(fqn)
          /\ LastInst(fqn).op = "return"
          /\ LastInst(fqn).args = <<DestValue(fqn)>>
          /\ Inst(fqn, Len(Unit(fqn).insts) - 1).op = "memcpy"
          /\ Inst(fqn, Len(Unit(fqn).insts) - 1).args[1] = DestValue(fqn)
          /\ Inst(fqn, Len(Unit(fqn).insts) - 1).args[2] # DestValue(fqn)
          /\ Inst(fqn, Len(Unit(fqn).insts) - 1).x
               = <<get_size_in_bytes(Func(fqn).return_ty)>>

\* g :: (a : [0]i32) and main :: () { g(.[]); } are compiled: the signature
\* of g has one parameter, the call in main passes no argument
C22_Witness ==
    /\ AllCompiled
    /\ Units = {1, 2}
    /\ Func(2).param_tys = <<Array0>>
    /\ Len(SignatureOf(2).params) = 1
    /\ \E k \in DirectCalls(1) : Callee(1, k) = 2 /\ Inst(1, k).args = <<>>
    /\ ~Unit(1).panic /\ ~Unit(2).panic


\* the backend index of the declared parameter i (0: it has none)
NewIdx(fqn, i) ==
    IF \E n \in DOMAIN SignatureOf(fqn).new_idx_to_old_idx :
          SignatureOf(fqn).new_idx_to_old_idx[n] = i
    THEN CHOOSE n \in DOMAIN SignatureOf(fqn).new_idx_to_old_idx :
            SignatureOf(fqn).new_idx_to_old_idx[n] = i
    ELSE 0
Incoming(fqn, i) == <<"bp", 1, NewIdx(fqn, i)>>
\* what Expr::Param { idx: i } evaluates to in the unit
ParamValue(fqn, i) == compile_param(Unit(fqn), i).v
Declared(fqn) == 1..Len(Func(fqn).param_tys)
AggregateParams(fqn) == {i \in Declared(fqn) : is_aggregate(Func(fqn).param_tys[i])}
\* the addresses the unit writes to
Written(fqn) ==
    {Inst(fqn, k).args[2] : k \in InstsOf(fqn, "store")}
    \cup {Inst(fqn, k).args[1] : k \in InstsOf(fqn, "memcpy")}

\* C23: every aggregate parameter is copied on entry, with a memcpy of its
\* size, to a fresh stack slot of the callee and its variable is bound to the
\* address of that slot, so nothing in the callee writes to the memory the
\* caller passed; Expr::Param { idx } reads the variable registered under the
\* declared index idx, whatever the number of backend parameters is.
C23_ParamsCopiedAndIndexed ==
    \A fqn \in Units :
       /\ \A i \in AggregateParams(fqn) :
             /\ OwnSlot(fqn, ParamValue(fqn, i), get_size_in_bytes(Func(fqn).param_tys[i]))
             /\ \E k \in InstsOf(fqn, "memcpy") :
                   /\ Inst(fqn, k).args = <<ParamValue(fqn, i), Incoming(fqn, i)>>
                   /\ Inst(fqn, k).x = <<get_size_in_bytes(Func(fqn).param_tys[i])>>
                   /\ Inst(fqn, k).block = 1
             /\ Incoming(fqn, i) \notin Written(fqn)
             /\ \A j \in AggregateParams(fqn) :
                   i # j => ParamValue(fqn, i) # ParamValue(fqn, j)
       /\ \A i \in Declared(fqn) :
             /\ NewIdx(fqn, i) = 0 <=> into_real_type(Func(fqn).param_tys[i]) = NoType
             /\ NewIdx(fqn, i) = 0 => ParamValue(fqn, i) = NoValue
             /\ NewIdx(fqn, i) # 0 /\ i \notin AggregateParams(fqn) =>
                   ParamValue(fqn, i) = Incoming(fqn, i)
             /\ NewIdx(fqn, i) # 0 =>
                   TypeOfValue(Unit(fqn), ParamValue(fqn, i))
                     = into_real_type(Func(fqn).param_tys[i])
       /\ GE(Func(fqn).body).k = "Param" /\ NewIdx(fqn, GE(Func(fqn).body).a) # 0 =>
             IF is_aggregate(Func(fqn).return_ty)
             THEN Inst(fqn, Len(Unit(fqn).insts) - 1).args[2]
                    = ParamValue(fqn, GE(Func(fqn).body).a)
             ELSE LastInst(fqn).args = <<ParamValue(fqn, GE(Func(fqn).body).a)>>

\* g :: (a: void, b: [3]i32) -> [3]i32 { b } is compiled: the backend
\* parameters are b and the destination, b has the declared index 2
C23_Witness ==
    /\ 2 \in Units
    /\ Func(2).param_tys = <<TVoid, Array3>>
    /\ GE(Func(2).body).k = "Param"
    /\ GE(Func(2).body).a = 2
    /\ NewIdx(2, 2) = 1
    /\ Len(SignatureOf(2).params) = 2
    /\ ParamValue(2, 2) = <<"v", 1>>


\* the jumps of the unit into the block
JumpsInto(fqn, block) == {k \in InstsOf(fqn, "jump") : Inst(fqn, k).x = <<block>>}
MergeParams(fqn, n) == Unit(fqn).blocks[Unit(fqn).ifs[n].merge_block]
IfsOf(fqn) == DOMAIN Unit(fqn).ifs

\* C24: the merge block of a compiled if has exactly one block parameter if
\* and only if the type of the if has a backend value type (and none
\* otherwise); the then block and the else block each jump to it, also when
\* there is no else branch or a branch yields no value, and every jump
\* passes as many arguments as the merge block has parameters.
C24_MergeBlockArity ==
    \A fqn \in Units : \A n \in IfsOf(fqn) :
       /\ Len(MergeParams(fqn, n)) = 1
             <=> into_real_type(GTy(Unit(fqn).ifs[n].expr)) # NoType
       /\ Len(MergeParams(fqn, n)) <= 1
       /\ {Inst(fqn, k).block : k \in JumpsInto(fqn, Unit(fqn).ifs[n].merge_block)}
            = {Unit(fqn).ifs[n].merge_block - 2, Unit(fqn).ifs[n].merge_block - 1}
       /\ Cardinality(JumpsInto(fqn, Unit(fqn).ifs[n].merge_block)) = 2
       /\ \A k \in JumpsInto(fqn, Unit(fqn).ifs[n].merge_block) :
             /\ Len(Inst(fqn, k).args) = Len(MergeParams(fqn, n))
             /\ \A i \in 1..Len(Inst(fqn, k).args) :
                   TypeOfValue(Unit(fqn), Inst(fqn, k).args[i]) = MergeParams(fqn, n)[i]

\* an if of type [0]i32 is compiled as the body of g: its merge block has
\* one pointer parameter and the two jumps into it pass no argument
C24_Witness ==
    /\ 2 \in Units /\ ~Unit(2).panic
    /\ GE(Func(2).body).k = "If"
    /\ GTy(Func(2).body) = Array0
    /\ IfsOf(2) = {1}
    /\ MergeParams(2, 1) = <<PointerType>>
    /\ Cardinality(JumpsInto(2, Unit(2).ifs[1].merge_block)) = 2
    /\ \A k \in JumpsInto(2, Unit(2).ifs[1].merge_block) : Inst(2, k).args = <<>>


(***************************************************************************)
(* Typed views of the syntax tree.                                         *)
(***************************************************************************)
\* the positions of the children of the node that are expression nodes
ExprChildren ==
    {i \in 1..Len(syntax_node.children) :
        syntax_node.children[i].node /\ syntax_node.children[i].kind \in ExprKinds}
\* the k-th smallest member of the set of positions, 0 if there is none
Smallest(set, k) ==
    IF \E i \in set : Cardinality({j \in set : j < i}) = k - 1
    THEN CHOOSE i \in set : Cardinality({j \in set : j < i}) = k - 1
    ELSE 0
Viewed == view # NoView

\* C25: the single-child accessor returns the first child node, in source
\* order, that casts to the kind asked for, and nodes(parent).nth(1) the
\* second: lhs() / condition() is the first and rhs() / body() the second
\* child expression (None when there is none), and no token and no node of
\* another kind (ElseBranch, Error) is ever returned as an operand.
C25_ViewsReturnOperandsInOrder ==
    Viewed =>
       /\ view.first = Smallest(ExprChildren, 1)
       /\ view.second = Smallest(ExprChildren, 2)
       /\ \A i \in {view.first, view.second} \ {0} :
             /\ syntax_node.children[i].node
             /\ syntax_node.children[i].kind \notin {"ElseBranch", "Error"}
       /\ view.of = "IfExpr" /\ view.other # 0 =>
             syntax_node.children[view.other].kind = "ElseBranch"

\* an IfExpr whose children are a token, the condition, the body and an
\* ElseBranch: condition() and body() are the second and third child
C25_Witness ==
    /\ Viewed
    /\ view.of = "IfExpr"
    /\ syntax_node.children
         = <<ChildToken("Whitespace"), ChildNode("VarRef"), ChildNode("Block"),
             ChildNode("ElseBranch")>>
    /\ view.first = 2
    /\ view.second = 3
    /\ view.other = 4


(***************************************************************************)
(* Re-inference.                                                           *)
(***************************************************************************)
\* C26: the consistency panic of reinfer_expr is unreachable: whenever
\* reinfer_expr recomputes the type of an expression or of a local without
\* annotation, the new type equals the recorded one, or the recorded one is
\* weak-replaceable by it, or the change is a tolerated one (slice recorded
\* where an array is recomputed, strong integer recorded where a weak
\* integer is recomputed); no pair of types ever fails the check.
C26_ConsistencyPanicUnreachable == hist.mismatch = <<>>


(***************************************************************************)
(* Constness of globals.                                                   *)
(***************************************************************************)
\* C27: get_const returns after finitely many steps in every world: no call
\* of it that the inference makes keeps growing its work list, also when
\* globals that are all in all_inferred refer to each other cyclically and a
\* third global refers to one of them.
C27_GetConstTerminates == hist.unbounded = 0


(***************************************************************************)
(* Statements across repeated walks of a body.                             *)
(***************************************************************************)
\* the statements one drive of the Inferrable i walks
StmtsOf(i) ==
    LET order == ExprOrder(Body(i))
    IN {order[j][2] : j \in {k \in 1..Len(order) : order[k][1] = "S"}}
Assigns == {s \in 1..NStmts : S(s).k = "Assign"}

\* C28: every statement infer_expr processed without returning Err is in
\* inferred_stmts (after a drive that ended Ok, every statement of the body),
\* and the diagnostics of a statement are emitted at most once however often
\* the body is walked: an assignment to an immutable destination has exactly
\* one CannotMutate.
C28_StatementsRecordedOnce ==
    /\ JustDrove("ok") => StmtsOf(last.item) \subseteq inferred_stmts
    /\ \A s \in Assigns :
          Cardinality(DiagsAt(diagnostics, "CannotMutate", S(s).a)) <= 1


(***************************************************************************)
(* The type of an un-annotated global that is an integer literal.          *)
(***************************************************************************)
\* g :: n was driven to its end
LiteralGlobalDone == WorldIs("GlobalLiteral") /\ InfGlobal(1) \in all_inferred
Literal == world_bodies.tag.n

\* C29: for an un-annotated global whose body is the integer literal n, for
\* every n of the u64 range, finish_body gives the global an integer type
\* that can represent n and emits no IntTooBigForType: i32 when n fits i32,
\* a 64-bit integer type when n does not fit in 32 bits.
C29_LiteralGlobalRepresentable ==
    LiteralGlobalDone =>
        /\ IsInt(signatures[1])
        /\ LiteralFits(Literal, signatures[1])
        /\ DiagsOf("IntTooBigForType") = {}
        /\ LiteralFits(Literal, I32) => signatures[1] = I32
        /\ NumGt(Literal, U32Max) => signatures[1] \in {I64, U64}


(***************************************************************************)
(* The checking stack of is_safe_to_compile.                               *)
(***************************************************************************)
\* the calls of is_safe_to_compile that returned so far
Checks == hist.pushes
NoRepeat(seq) == \A i, j \in 1..Len(seq) : seq[i] = seq[j] => i = j

\* C30: every call of is_safe_to_compile returns, also on directly and
\* mutually recursive functions and globals: within one call the body of
\* each Inferrable is pushed on the checking stack at most once, and the body
\* of the item that is being inferred is never pushed.
C30_EachBodyPushedOnce ==
    \A chk \in Checks :
       /\ NoRepeat(chk.pushed)
       /\ \A i \in 1..Len(chk.pushed) : chk.pushed[i] # chk.item
\* the check of a size that names mutually recursive functions returned
\* after pushing the bodies of both functions and both lambdas
C30_Witness ==
    /\ WorldIs("RecursiveSize")
    /\ \E chk \in Checks :
          /\ chk.item = InfLambda(3)
          /\ {chk.pushed[i] : i \in 1..Len(chk.pushed)}
               = {InfGlobal(1), InfLambda(1), InfGlobal(2), InfLambda(2)}
====
